---- MODULE Spec2Model ----
(***************************************************************************)
(* The command-translation and reconciliation layer of the Minecraft       *)
(* Terraform provider: the RCON client (internal/minecraft/client.go) and  *)
(* the Create / Read / Update / Delete / ImportState handlers of the       *)
(* resources.                                                              *)
(*                                                                         *)
(* One behaviour follows one resource of one kind through its life.  An    *)
(* action is one whole handler call: the plan (or import id) and the       *)
(* transport's replies are its inputs; the commands it sends, the          *)
(* diagnostics it reports and the state it stores are its result.          *)
(*                                                                         *)
(* Text that the code parses (TrimSpace, ToLower, Atoi, Split) is a        *)
(* sequence of one-character strings; text that the code only formats is   *)
(* a string.  Commands are the exact strings handed to SendCommand.        *)
(***************************************************************************)
EXTENDS Integers, Sequences, FiniteSets, TLC

VARIABLES
    kind,     \* the resource kind this behaviour follows
    stored,   \* the tracked state: <<>> (none) or <<data>>
    last,     \* the most recent handler call and its outcome
    made,     \* the commands of the Create that made an entity or a membership
    held,     \* the players with a grant or a ban issued here and not taken back
    world,    \* the game mode of the target: before the Create, and now
    placed    \* the cells where a bed or a chest has a block not yet set to air

vars == <<kind, stored, last, made, held, world, placed>>

----------------------------------------------------------------------------
(* Bounds of the model. *)

\* Extra coordinates beside the documented (10,64,10).
CoordRange == 1

----------------------------------------------------------------------------
(* Go's strings, strconv and fmt, as far as the code uses them. *)

Blank == {" ", "\t", "\n", "\r"}

RECURSIVE TrimLeft(_)
TrimLeft(s) == IF s # <<>> /\ Head(s) \in Blank THEN TrimLeft(Tail(s)) ELSE s

RECURSIVE TrimRightSpace(_)
TrimRightSpace(s) ==
    IF s # <<>> /\ s[Len(s)] \in Blank
    THEN TrimRightSpace(SubSeq(s, 1, Len(s) - 1))
    ELSE s

\* strings.TrimSpace
TrimSpace(s) == TrimRightSpace(TrimLeft(s))

\* strings.TrimRight(s, cutset) for a one-character cutset
RECURSIVE TrimRight(_, _)
TrimRight(s, c) ==
    IF s # <<>> /\ s[Len(s)] = c THEN TrimRight(SubSeq(s, 1, Len(s) - 1), c) ELSE s

LowerOf(c) ==
    CASE c = "A" -> "a" [] c = "B" -> "b" [] c = "C" -> "c" [] c = "D" -> "d"
      [] c = "E" -> "e" [] c = "F" -> "f" [] c = "G" -> "g" [] c = "H" -> "h"
      [] c = "I" -> "i" [] c = "J" -> "j" [] c = "K" -> "k" [] c = "L" -> "l"
      [] c = "M" -> "m" [] c = "N" -> "n" [] c = "O" -> "o" [] c = "P" -> "p"
      [] c = "Q" -> "q" [] c = "R" -> "r" [] c = "S" -> "s" [] c = "T" -> "t"
      [] c = "U" -> "u" [] c = "V" -> "v" [] c = "W" -> "w" [] c = "X" -> "x"
      [] c = "Y" -> "y" [] c = "Z" -> "z" [] OTHER -> c

\* strings.ToLower
ToLower(s) == [i \in 1..Len(s) |-> LowerOf(s[i])]

\* The text as a string (for a %s verb and for map lookups).
RECURSIVE Str(_)
Str(s) == IF s = <<>> THEN "" ELSE Head(s) \o Str(Tail(s))

DigitChars == <<"0", "1", "2", "3", "4", "5", "6", "7", "8", "9">>

IsDigit(c) == \E d \in 1..10 : DigitChars[d] = c

DigitVal(c) == (CHOOSE d \in 1..10 : DigitChars[d] = c) - 1

RECURSIVE DigitsVal(_)
DigitsVal(s) ==
    IF s = <<>> THEN 0 ELSE DigitsVal(SubSeq(s, 1, Len(s) - 1)) * 10 + DigitVal(s[Len(s)])

\* strconv.Atoi: an optional sign, then one or more decimal digits.
Atoi(s) ==
    LET signed == s # <<>> /\ Head(s) \in {"+", "-"}
        digits == IF signed THEN Tail(s) ELSE s
        ok == digits # <<>> /\ \A i \in 1..Len(digits) : IsDigit(digits[i])
    IN  IF ~ok THEN [ok |-> FALSE, val |-> 0]
        ELSE [ok |-> TRUE,
              val |-> IF signed /\ Head(s) = "-" THEN 0 - DigitsVal(digits)
                      ELSE DigitsVal(digits)]

RECURSIVE FmtNat(_)
FmtNat(n) == IF n < 10 THEN DigitChars[n + 1] ELSE FmtNat(n \div 10) \o DigitChars[(n % 10) + 1]

\* fmt's %d
FmtInt(n) == IF n < 0 THEN "-" \o FmtNat(0 - n) ELSE FmtNat(n)

\* fmt's %t
FmtBool(b) == IF b THEN "true" ELSE "false"

----------------------------------------------------------------------------
(* The transport: one command in, one reply or an error out. *)

\* A reply: the transport call succeeded (with the reply text) or failed.
OkReply == [ok |-> TRUE, text |-> <<>>]
ErrReply == [ok |-> FALSE, text |-> <<>>]
PlainReplies == {OkReply, ErrReply}

\* What a handler call did.  cmds: the commands sent, in order.  errors and
\* warnings: the diagnostics, each with the number of the send whose error it
\* reports (0: none).  set: <<>> or <<the state passed to State.Set>>.
Out(cmds, errors, warnings, set) ==
    [cmds |-> cmds, errors |-> errors, warnings |-> warnings, set |-> set]

Diag(summary, detail, cause) == [summary |-> summary, detail |-> detail, cause |-> cause]

----------------------------------------------------------------------------
(* internal/minecraft/client.go: blocks. *)

CreateBlock(material, x, y, z) ==
    "setblock " \o FmtInt(x) \o " " \o FmtInt(y) \o " " \o FmtInt(z)
        \o " " \o material \o " replace"

\* A rollback aimed at the second half instead of the first.
DeleteBlockNextCell(x, y, z) ==
    "setblock " \o FmtInt(x + 1) \o " " \o FmtInt(y) \o " " \o FmtInt(z)
        \o " minecraft:air replace"

DeleteBlock(x, y, z) ==
    "setblock " \o FmtInt(x) \o " " \o FmtInt(y) \o " " \o FmtInt(z)
        \o " minecraft:air replace"

----------------------------------------------------------------------------
(* The bed resource. *)

Coordinates ==
    {[X |-> 10, Y |-> 64, Z |-> 10]}
        \cup {[X |-> 0 - k, Y |-> 70 + k, Z |-> k - 1] : k \in 1..CoordRange}

\* An optional bool of the plan (*bool): <<>> is nil.
OptBool == {<<>>, <<TRUE>>}

Deref(p) == IF p # <<>> THEN p[1] ELSE FALSE

BedDirections == {"north", "south", "east", "west", "up"}

\* The bed configurations Create and Update are called with (Id not yet known).
BedConfigs ==
    {[Id |-> "", Material |-> "minecraft:red_bed", X |-> c.X, Y |-> c.Y, Z |-> c.Z,
      Direction |-> d, Occupied |-> o] :
        c \in Coordinates, d \in BedDirections, o \in OptBool}

\* An offset table with east and west taken for each other.
bedOffsetMirrored(facing) ==
    CASE facing = "north" -> [dx |-> 0, dz |-> -1, valid |-> TRUE]
      [] facing = "south" -> [dx |-> 0, dz |-> 1, valid |-> TRUE]
      [] facing = "east" -> [dx |-> -1, dz |-> 0, valid |-> TRUE]
      [] facing = "west" -> [dx |-> 1, dz |-> 0, valid |-> TRUE]
      [] OTHER -> [dx |-> 0, dz |-> 0, valid |-> FALSE]

\* An offset table that takes any other facing as "no offset".
bedOffsetLenient(facing) ==
    CASE facing = "north" -> [dx |-> 0, dz |-> -1, valid |-> TRUE]
      [] facing = "south" -> [dx |-> 0, dz |-> 1, valid |-> TRUE]
      [] facing = "east" -> [dx |-> 1, dz |-> 0, valid |-> TRUE]
      [] facing = "west" -> [dx |-> -1, dz |-> 0, valid |-> TRUE]
      [] OTHER -> [dx |-> 0, dz |-> 0, valid |-> TRUE]

bedOffset(facing) ==
    CASE facing = "north" -> [dx |-> 0, dz |-> -1, valid |-> TRUE]
      [] facing = "south" -> [dx |-> 0, dz |-> 1, valid |-> TRUE]
      [] facing = "east" -> [dx |-> 1, dz |-> 0, valid |-> TRUE]
      [] facing = "west" -> [dx |-> -1, dz |-> 0, valid |-> TRUE]
      [] OTHER -> [dx |-> 0, dz |-> 0, valid |-> FALSE]

bedPartMat(data, part) ==
    data.Material \o "[facing=" \o data.Direction \o ",part=" \o part
        \o ",occupied=" \o FmtBool(Deref(data.Occupied)) \o "]"

bedId(data) ==
    "bed-" \o FmtInt(data.X) \o "-" \o FmtInt(data.Y) \o "-" \o FmtInt(data.Z)
        \o "-" \o data.Direction

\* A Create that sends the head without waiting for the foot's reply.
bedCreateBothAtOnce(data, tr) ==
    LET off == bedOffset(data.Direction)
        foot == CreateBlock(bedPartMat(data, "foot"), data.X, data.Y, data.Z)
        head == CreateBlock(bedPartMat(data, "head"), data.X + off.dx, data.Y, data.Z + off.dz)
        rollback == DeleteBlock(data.X, data.Y, data.Z)
    IN  IF ~off.valid
        THEN Out(<<>>, <<Diag("Validation Error",
                              "direction must be one of north|south|east|west", 0)>>,
                 <<>>, <<>>)
        ELSE IF ~tr[1].ok
        THEN Out(<<foot, head>>, <<Diag("Client Error", "Unable to place bed foot: %s", 1)>>,
                 <<>>, <<>>)
        ELSE IF ~tr[2].ok
        THEN Out(<<foot, head, rollback>>,
                 <<Diag("Client Error", "Unable to place bed head: %s", 2)>>, <<>>, <<>>)
        ELSE Out(<<foot, head>>, <<>>, <<>>, <<[data EXCEPT !.Id = bedId(data)]>>)

bedCreate(data, tr) ==
    LET off == bedOffset(data.Direction)
        foot == CreateBlock(bedPartMat(data, "foot"), data.X, data.Y, data.Z)
        head == CreateBlock(bedPartMat(data, "head"), data.X + off.dx, data.Y, data.Z + off.dz)
        rollback == DeleteBlock(data.X, data.Y, data.Z)
    IN  IF ~off.valid
        THEN Out(<<>>, <<Diag("Validation Error",
                              "direction must be one of north|south|east|west", 0)>>,
                 <<>>, <<>>)
        ELSE IF ~tr[1].ok
        THEN Out(<<foot>>, <<Diag("Client Error", "Unable to place bed foot: %s", 1)>>,
                 <<>>, <<>>)
        ELSE IF ~tr[2].ok
        THEN \* the foot is rolled back; the rollback's own error is discarded
             Out(<<foot, head, rollback>>,
                 <<Diag("Client Error", "Unable to place bed head: %s", 2)>>, <<>>, <<>>)
        ELSE Out(<<foot, head>>, <<>>, <<>>, <<[data EXCEPT !.Id = bedId(data)]>>)

bedUpdate(data, tr) ==
    LET off == bedOffset(data.Direction)
        foot == CreateBlock(bedPartMat(data, "foot"), data.X, data.Y, data.Z)
        head == CreateBlock(bedPartMat(data, "head"), data.X + off.dx, data.Y, data.Z + off.dz)
    IN  IF ~off.valid
        THEN Out(<<>>, <<Diag("Validation Error",
                              "direction must be one of north|south|east|west", 0)>>,
                 <<>>, <<>>)
        ELSE IF ~tr[1].ok
        THEN Out(<<foot>>, <<Diag("Client Error", "Unable to update bed foot: %s", 1)>>,
                 <<>>, <<>>)
        ELSE IF ~tr[2].ok
        THEN Out(<<foot, head>>, <<Diag("Client Error", "Unable to update bed head: %s", 2)>>,
                 <<>>, <<>>)
        ELSE Out(<<foot, head>>, <<>>, <<>>, <<data>>)

bedDelete(state, tr) ==
    LET off == bedOffset(state.Direction)
        foot == DeleteBlock(state.X, state.Y, state.Z)
        head == DeleteBlock(state.X + off.dx, state.Y, state.Z + off.dz)
    IN  Out(IF off.valid THEN <<foot, head>> ELSE <<foot>>, <<>>, <<>>, <<>>)

----------------------------------------------------------------------------
(* The chest resource. *)

ChestSizes == {"single", "double", "large"}

ChestConfigs ==
    {[Id |-> "", Size |-> s, Trapped |-> t, Waterlogged |-> w, X |-> c.X, Y |-> c.Y, Z |-> c.Z] :
        s \in ChestSizes, t \in OptBool, w \in OptBool, c \in Coordinates}

chestBlock(data, type) ==
    (IF Deref(data.Trapped) THEN "minecraft:trapped_chest" ELSE "minecraft:chest")
        \o "[type=" \o type \o ",waterlogged=" \o FmtBool(Deref(data.Waterlogged)) \o "]"

chestId(data) ==
    "chest-" \o FmtInt(data.X) \o "-" \o FmtInt(data.Y) \o "-" \o FmtInt(data.Z)

chestCreate(data, tr) ==
    LET single == CreateBlock(chestBlock(data, "single"), data.X, data.Y, data.Z)
        left == CreateBlock(chestBlock(data, "left"), data.X, data.Y, data.Z)
        right == CreateBlock(chestBlock(data, "right"), data.X + 1, data.Y, data.Z)
        rollback == DeleteBlock(data.X, data.Y, data.Z)
        done == <<[data EXCEPT !.Id = chestId(data)]>>
    IN  CASE data.Size = "single" ->
                IF ~tr[1].ok
                THEN Out(<<single>>,
                         <<Diag("Client Error", "Unable to place single chest: %s", 1)>>,
                         <<>>, <<>>)
                ELSE Out(<<single>>, <<>>, <<>>, done)
          [] data.Size = "double" ->
                IF ~tr[1].ok
                THEN Out(<<left>>,
                         <<Diag("Client Error",
                                "Unable to place left half of double chest: %s", 1)>>,
                         <<>>, <<>>)
                ELSE IF ~tr[2].ok
                THEN \* the left half is rolled back; the rollback's own error is discarded
                     Out(<<left, right, rollback>>,
                         <<Diag("Client Error",
                                "Unable to place right half of double chest: %s", 2)>>,
                         <<>>, <<>>)
                ELSE Out(<<left, right>>, <<>>, <<>>, done)
          [] OTHER ->
                Out(<<>>, <<Diag("Validation Error", "size must be 'single' or 'double'", 0)>>,
                    <<>>, <<>>)

chestUpdate(data, tr) ==
    LET single == CreateBlock(chestBlock(data, "single"), data.X, data.Y, data.Z)
        left == CreateBlock(chestBlock(data, "left"), data.X, data.Y, data.Z)
        right == CreateBlock(chestBlock(data, "right"), data.X + 1, data.Y, data.Z)
    IN  CASE data.Size = "single" ->
                IF ~tr[1].ok
                THEN Out(<<single>>,
                         <<Diag("Client Error", "Unable to update single chest: %s", 1)>>,
                         <<>>, <<>>)
                ELSE Out(<<single>>, <<>>, <<>>, <<data>>)
          [] data.Size = "double" ->
                IF ~tr[1].ok
                THEN Out(<<left>>,
                         <<Diag("Client Error",
                                "Unable to update left half of double chest: %s", 1)>>,
                         <<>>, <<>>)
                ELSE IF ~tr[2].ok
                THEN Out(<<left, right>>,
                         <<Diag("Client Error",
                                "Unable to update right half of double chest: %s", 2)>>,
                         <<>>, <<>>)
                ELSE Out(<<left, right>>, <<>>, <<>>, <<data>>)
          [] OTHER ->
                Out(<<>>, <<Diag("Validation Error", "size must be 'single' or 'double'", 0)>>,
                    <<>>, <<>>)

chestDelete(state, tr) ==
    LET first == DeleteBlock(state.X, state.Y, state.Z)
        second == DeleteBlock(state.X + 1, state.Y, state.Z)
    IN  Out(IF state.Size = "double" THEN <<first, second>> ELSE <<first>>, <<>>, <<>>, <<>>)

----------------------------------------------------------------------------
(* internal/minecraft/client.go: teams. *)

\* strings.ReplaceAll(s, `"`, `\"`)
RECURSIVE EscapeQuotes(_)
EscapeQuotes(s) ==
    IF s = <<>> THEN <<>>
    ELSE (IF Head(s) = "\"" THEN <<"\\", "\"">> ELSE <<Head(s)>>) \o EscapeQuotes(Tail(s))

CreateTeam(name, displayName) ==
    IF displayName # <<>>
    THEN "team add " \o Str(name) \o " \"" \o Str(displayName) \o "\""
    ELSE "team add " \o Str(name)

DeleteTeam(name) == "team remove " \o Str(name)

SetTeamColor(name, color) == "team modify " \o Str(name) \o " color " \o Str(ToLower(color))

SetTeamFriendlyFire(name, enabled) ==
    "team modify " \o Str(name) \o " friendlyFire " \o (IF ~enabled THEN "false" ELSE "true")

SetTeamSeeFriendlyInvisibles(name, enabled) ==
    "team modify " \o Str(name) \o " seeFriendlyInvisibles "
        \o (IF ~enabled THEN "false" ELSE "true")

SetTeamNametagVisibility(name, mode) ==
    "team modify " \o Str(name) \o " nametagVisibility " \o Str(TrimSpace(mode))

SetTeamCollisionRule(name, rule) ==
    "team modify " \o Str(name) \o " collisionRule " \o Str(TrimSpace(rule))

SetTeamDisplayName(name, display) ==
    "team modify " \o Str(name) \o " displayName {\"text\":\"" \o Str(EscapeQuotes(display))
        \o "\"}"

----------------------------------------------------------------------------
(* The team resource. *)

\* types.String and types.Bool of the plan.
NullStr == [Null |-> TRUE, Value |-> <<>>]
StrOf(v) == [Null |-> FALSE, Value |-> v]
NullBool == [Null |-> TRUE, Value |-> FALSE]
BoolOf(b) == [Null |-> FALSE, Value |-> b]

NoTeamOptions ==
    [Color |-> NullStr, FriendlyFire |-> NullBool, SeeFriendlyInvisibles |-> NullBool,
     NametagVisibility |-> NullStr, CollisionRule |-> NullStr]

\* The option sets of the plans: none, the color, an empty color with one flag, all.
TeamOptions ==
    {NoTeamOptions,
     [NoTeamOptions EXCEPT !.Color = StrOf(<<"R", "e", "d">>)],
     [NoTeamOptions EXCEPT !.Color = StrOf(<<>>), !.FriendlyFire = BoolOf(FALSE)],
     [Color |-> StrOf(<<"R", "e", "d">>), FriendlyFire |-> BoolOf(TRUE),
      SeeFriendlyInvisibles |-> BoolOf(FALSE),
      NametagVisibility |-> StrOf(<<"n", "e", "v", "e", "r">>),
      CollisionRule |-> StrOf(<<" ", "a", "l", "w", "a", "y", "s">>)]}

TeamConfigs ==
    {[Id |-> "", Name |-> n, DisplayName |-> dn, Color |-> o.Color,
      FriendlyFire |-> o.FriendlyFire, SeeFriendlyInvisibles |-> o.SeeFriendlyInvisibles,
      NametagVisibility |-> o.NametagVisibility, CollisionRule |-> o.CollisionRule] :
        n \in {<<"r", "e", "d">>, <<" ", "b", "l", "u", "e", " ">>, <<" ">>},
        dn \in {NullStr, StrOf(<<>>), StrOf(<<"A", "\"", "B">>)},
        o \in TeamOptions}

equalString(a, b) == IF a.Null /\ b.Null THEN TRUE ELSE a.Value = b.Value

IsOn(step) == step.on

\* The option commands of the plan, in the order of the code; they are sent one
\* after the other (the first is the base+1-st command of the call) and the first
\* failure ends the function with that step's error.
applyTeamOptions(name, d, tr, base) ==
    LET steps == SelectSeq(
            <<[on |-> ~d.Color.Null /\ d.Color.Value # <<>>,
               cmd |-> SetTeamColor(name, ToLower(d.Color.Value)),
               detail |-> "Unable to set color: %s"],
              [on |-> ~d.FriendlyFire.Null,
               cmd |-> SetTeamFriendlyFire(name, d.FriendlyFire.Value),
               detail |-> "Unable to set friendlyFire: %s"],
              [on |-> ~d.SeeFriendlyInvisibles.Null,
               cmd |-> SetTeamSeeFriendlyInvisibles(name, d.SeeFriendlyInvisibles.Value),
               detail |-> "Unable to set seeFriendlyInvisibles: %s"],
              [on |-> ~d.NametagVisibility.Null /\ d.NametagVisibility.Value # <<>>,
               cmd |-> SetTeamNametagVisibility(name, d.NametagVisibility.Value),
               detail |-> "Unable to set nametagVisibility: %s"],
              [on |-> ~d.CollisionRule.Null /\ d.CollisionRule.Value # <<>>,
               cmd |-> SetTeamCollisionRule(name, d.CollisionRule.Value),
               detail |-> "Unable to set collisionRule: %s"]>>, IsOn)
        failed == {i \in 1..Len(steps) : ~tr[base + i].ok}
        stop == IF failed = {} THEN 0 ELSE CHOOSE i \in failed : \A j \in failed : i <= j
        sent == IF stop = 0 THEN Len(steps) ELSE stop
    IN  [cmds |-> [i \in 1..sent |-> steps[i].cmd],
         errors |-> IF stop = 0 THEN <<>>
                    ELSE <<Diag("Client Error", steps[stop].detail, base + stop)>>]

teamCreate(plan, tr) ==
    LET name == TrimSpace(plan.Name)
        display == IF ~plan.DisplayName.Null /\ plan.DisplayName.Value # <<>>
                   THEN plan.DisplayName.Value ELSE name
        add == CreateTeam(name, display)
        opts == applyTeamOptions(name, plan, tr, 1)
    IN  IF ~tr[1].ok
        THEN Out(<<add>>, <<Diag("Client Error", "Unable to create team: %s", 1)>>, <<>>, <<>>)
        ELSE IF opts.errors # <<>>
        THEN \* the team stays on the server: no team remove is sent
             Out(<<add>> \o opts.cmds, opts.errors, <<>>, <<>>)
        ELSE Out(<<add>> \o opts.cmds, <<>>, <<>>, <<[plan EXCEPT !.Id = Str(name)]>>)

teamUpdate(plan, state, tr) ==
    LET name == TrimSpace(plan.Name)
        changed == ~equalString(plan.DisplayName, state.DisplayName)
        display == IF ~plan.DisplayName.Null /\ plan.DisplayName.Value # <<>>
                   THEN plan.DisplayName.Value ELSE name
        first == IF changed THEN <<SetTeamDisplayName(name, display)>> ELSE <<>>
        opts == applyTeamOptions(name, plan, tr, Len(first))
    IN  IF changed /\ ~tr[1].ok
        THEN Out(first, <<Diag("Client Error", "Unable to set displayName: %s", 1)>>,
                 <<>>, <<>>)
        ELSE IF opts.errors # <<>>
        THEN Out(first \o opts.cmds, opts.errors, <<>>, <<>>)
        ELSE Out(first \o opts.cmds, <<>>, <<>>, <<plan>>)

teamDelete(state, tr) ==
    IF ~tr[1].ok
    THEN Out(<<DeleteTeam(state.Name)>>,
             <<Diag("Client Error", "Unable to delete team: %s", 1)>>, <<>>, <<>>)
    ELSE Out(<<DeleteTeam(state.Name)>>, <<>>, <<>>, <<>>)

----------------------------------------------------------------------------
(* internal/minecraft/client.go: game modes. *)

Text_survival == <<"s", "u", "r", "v", "i", "v", "a", "l">>
Text_creative == <<"c", "r", "e", "a", "t", "i", "v", "e">>
Text_adventure == <<"a", "d", "v", "e", "n", "t", "u", "r", "e">>
Text_spectator == <<"s", "p", "e", "c", "t", "a", "t", "o", "r">>

\* A table that counts the modes from one.
gameModeNamesFromOne(id) ==
    CASE id = 1 -> [ok |-> TRUE, name |-> Text_survival]
      [] id = 2 -> [ok |-> TRUE, name |-> Text_creative]
      [] id = 3 -> [ok |-> TRUE, name |-> Text_adventure]
      [] id = 4 -> [ok |-> TRUE, name |-> Text_spectator]
      [] OTHER -> [ok |-> FALSE, name |-> <<>>]

\* A table read that falls back to survival for an id it does not hold.
gameModeNamesWithFallback(id) ==
    CASE id = 0 -> [ok |-> TRUE, name |-> Text_survival]
      [] id = 1 -> [ok |-> TRUE, name |-> Text_creative]
      [] id = 2 -> [ok |-> TRUE, name |-> Text_adventure]
      [] id = 3 -> [ok |-> TRUE, name |-> Text_spectator]
      [] OTHER -> [ok |-> TRUE, name |-> Text_survival]

\* The table of mode names by numeric id; ok is the comma-ok of the map read.
gameModeNames(id) ==
    CASE id = 0 -> [ok |-> TRUE, name |-> Text_survival]
      [] id = 1 -> [ok |-> TRUE, name |-> Text_creative]
      [] id = 2 -> [ok |-> TRUE, name |-> Text_adventure]
      [] id = 3 -> [ok |-> TRUE, name |-> Text_spectator]
      [] OTHER -> [ok |-> FALSE, name |-> <<>>]

\* strings.Split(out, ":"): the number of parts and the last part.
SplitColon(out) ==
    LET colons == {i \in 1..Len(out) : out[i] = ":"}
        lastColon == IF colons = {} THEN 0 ELSE CHOOSE i \in colons : \A j \in colons : j <= i
    IN  [parts |-> Cardinality(colons) + 1, last |-> SubSeq(out, lastColon + 1, Len(out))]

GetDefaultGameModeCmd == "/data get storage minecraft:server worldDefaultGameMode"

\* The result of GetDefaultGameMode from the transport's reply: (name, err).
GetDefaultGameMode(reply) ==
    LET split == SplitColon(reply.text)
        id == Atoi(TrimRight(TrimSpace(split.last), "}"))
    IN  IF ~reply.ok THEN [err |-> "send command", name |-> <<>>]
        ELSE IF split.parts < 2 THEN [err |-> "unexpected response", name |-> <<>>]
        ELSE IF ~id.ok THEN [err |-> "parse int", name |-> <<>>]
        ELSE IF ~gameModeNames(id.val).ok THEN [err |-> "unknown game mode id", name |-> <<>>]
        ELSE [err |-> "", name |-> gameModeNames(id.val).name]

GetUserGameModeCmd(name) == "/data get entity " \o Str(name) \o " playerGameType"

\* The result of GetUserGameMode from the transport's reply: (name, err).
GetUserGameMode(reply) ==
    LET split == SplitColon(reply.text)
        id == Atoi(TrimSpace(split.last))
    IN  IF ~reply.ok THEN [err |-> "send command", name |-> <<>>]
        ELSE IF split.parts < 2 THEN [err |-> "unexpected response", name |-> <<>>]
        ELSE IF ~id.ok THEN [err |-> "parse int", name |-> <<>>]
        ELSE IF ~gameModeNames(id.val).ok THEN [err |-> "unknown game mode id", name |-> <<>>]
        ELSE [err |-> "", name |-> gameModeNames(id.val).name]

SetDefaultGameMode(gamemode) == "defaultgamemode " \o Str(gamemode)

\* The two arguments taken in the other order.
SetUserGameModeSwapped(gamemode, name) == "gamemode " \o Str(name) \o " " \o Str(gamemode)

SetUserGameMode(gamemode, name) == "gamemode " \o Str(gamemode) \o " " \o Str(name)

----------------------------------------------------------------------------
(* The game-mode resource. *)

\* The plans: the player is empty (the server default) or a name.
GameModeConfigs ==
    [Id : {""},
     Mode : {Text_creative, <<" ", "S", "u", "r", "v", "i", "v", "a", "l">>,
             <<"h", "a", "r", "d">>},
     Player : {<<>>, <<"a", "l", "i", "c", "e">>, <<" ", "b", "o", "b">>},
     PreviousMode : {<<>>}]

\* The replies of the server to a mode query, and a failed call.
ModeReplies ==
    {ErrReply}
        \cup {[ok |-> TRUE, text |-> t] :
                t \in {<<"d", "a", "t", "a", ":", " ", "0">>,
                       <<"d", "a", "t", "a", ":", " ", "1">>,
                       <<"d", "a", "t", "a", ":", " ", "2">>,
                       <<"{", "m", ":", "3", "}">>,
                       <<"d", "a", "t", "a", ":", " ", "7">>,
                       <<"d", "a", "t", "a", ":", " ", "-", "1">>,
                       <<"d", "a", "t", "a", ":", " ", "1", "b">>,
                       <<"n", "o", "n", "e">>}}

validateMode(m) == m \in {Text_survival, Text_creative, Text_adventure, Text_spectator}

gamemodeCreate(plan, tr) ==
    LET mode == ToLower(TrimSpace(plan.Mode))
        player == TrimSpace(plan.Player)
        id == IF player = <<>> THEN "default" ELSE "player:" \o Str(player)
        got == IF player = <<>> THEN GetDefaultGameMode(tr[1]) ELSE GetUserGameMode(tr[1])
        prev == IF got.err = "" /\ got.name # <<>> THEN got.name ELSE <<>>
        query == IF player = <<>> THEN GetDefaultGameModeCmd ELSE GetUserGameModeCmd(player)
        set == IF player = <<>> THEN SetDefaultGameMode(mode) ELSE SetUserGameMode(mode, player)
    IN  IF ~validateMode(mode)
        THEN Out(<<>>, <<Diag("Validation Error", "mode must be one of: ...", 0)>>, <<>>, <<>>)
        ELSE IF ~tr[2].ok
        THEN Out(<<query, set>>,
                 <<Diag("Client Error",
                        IF player = <<>> THEN "Unable to set default gamemode to %q: %s"
                        ELSE "Unable to set %q gamemode to %q: %s", 2)>>,
                 <<>>, <<>>)
        ELSE Out(<<query, set>>, <<>>, <<>>,
                 <<[plan EXCEPT !.Id = id, !.PreviousMode = prev]>>)

\* An Update that keeps the snapshot of the Create.
gamemodeUpdateKeepingSnapshot(plan, state, tr) ==
    LET mode == ToLower(TrimSpace(plan.Mode))
        player == TrimSpace(plan.Player)
        query == IF player = <<>> THEN GetDefaultGameModeCmd ELSE GetUserGameModeCmd(player)
        set == IF player = <<>> THEN SetDefaultGameMode(mode) ELSE SetUserGameMode(mode, player)
    IN  IF ~validateMode(mode)
        THEN Out(<<>>, <<Diag("Validation Error", "mode must be one of: ...", 0)>>, <<>>, <<>>)
        ELSE IF ~tr[2].ok
        THEN Out(<<query, set>>, <<Diag("Client Error", "Unable to set gamemode", 2)>>,
                 <<>>, <<>>)
        ELSE Out(<<query, set>>, <<>>, <<>>,
                 <<[plan EXCEPT !.PreviousMode = state.PreviousMode]>>)

gamemodeUpdate(plan, state, tr) ==
    LET mode == ToLower(TrimSpace(plan.Mode))
        player == TrimSpace(plan.Player)
        got == IF player = <<>> THEN GetDefaultGameMode(tr[1]) ELSE GetUserGameMode(tr[1])
        prev == IF got.err = "" /\ got.name # <<>> THEN got.name ELSE state.PreviousMode
        query == IF player = <<>> THEN GetDefaultGameModeCmd ELSE GetUserGameModeCmd(player)
        set == IF player = <<>> THEN SetDefaultGameMode(mode) ELSE SetUserGameMode(mode, player)
    IN  IF ~validateMode(mode)
        THEN Out(<<>>, <<Diag("Validation Error", "mode must be one of: ...", 0)>>, <<>>, <<>>)
        ELSE IF ~tr[2].ok
        THEN Out(<<query, set>>,
                 <<Diag("Client Error",
                        IF player = <<>> THEN "Unable to set default gamemode to %q: %s"
                        ELSE "Unable to set %q gamemode to %q: %s", 2)>>,
                 <<>>, <<>>)
        ELSE Out(<<query, set>>, <<>>, <<>>, <<[plan EXCEPT !.PreviousMode = prev]>>)

gamemodeDelete(state, tr) ==
    LET prev == TrimSpace(state.PreviousMode)
        player == TrimSpace(state.Player)
        set == IF player = <<>> THEN SetDefaultGameMode(prev) ELSE SetUserGameMode(prev, player)
    IN  IF prev = <<>> THEN Out(<<>>, <<>>, <<>>, <<>>)
        ELSE IF ~tr[1].ok
        THEN Out(<<set>>, <<>>,
                 <<Diag("Restore Warning",
                        IF player = <<>> THEN "Failed to restore default gamemode to %q: %s"
                        ELSE "Failed to restore %q gamemode to %q: %s", 1)>>,
                 <<>>)
        ELSE Out(<<set>>, <<>>, <<>>, <<>>)

----------------------------------------------------------------------------
(* The day-lock resource. *)

\* The client's SetDayLock call: its text on the wire is not part of these
\* sources, the call is recorded in its place.
SetDayLock(enabled) == "SetDayLock(" \o FmtBool(enabled) \o ")"

DaylockConfigs == [Id : {""}, Enabled : {BoolOf(TRUE), BoolOf(FALSE)}]

daylockCreate(plan, tr) ==
    IF ~tr[1].ok
    THEN Out(<<SetDayLock(plan.Enabled.Value)>>,
             <<Diag("Client Error", "Failed to set daylock to %t: %s", 1)>>, <<>>, <<>>)
    ELSE Out(<<SetDayLock(plan.Enabled.Value)>>, <<>>, <<>>, <<[plan EXCEPT !.Id = "default"]>>)

daylockUpdate(plan, tr) ==
    IF ~tr[1].ok
    THEN Out(<<SetDayLock(plan.Enabled.Value)>>,
             <<Diag("Client Error", "Failed to set daylock to %t: %s", 1)>>, <<>>, <<>>)
    ELSE Out(<<SetDayLock(plan.Enabled.Value)>>, <<>>, <<>>, <<plan>>)

\* A Delete that reports the failed restore as an error.
daylockDeleteStrict(tr) ==
    IF ~tr[1].ok
    THEN Out(<<SetDayLock(FALSE)>>,
             <<Diag("Client Error", "Failed to disable daylock during destroy: %s", 1)>>,
             <<>>, <<>>)
    ELSE Out(<<SetDayLock(FALSE)>>, <<>>, <<>>, <<>>)

daylockDelete(tr) ==
    IF ~tr[1].ok
    THEN Out(<<SetDayLock(FALSE)>>, <<>>,
             <<Diag("Delete Warning", "Failed to disable daylock during destroy: %s", 1)>>,
             <<>>)
    ELSE Out(<<SetDayLock(FALSE)>>, <<>>, <<>>, <<>>)

----------------------------------------------------------------------------
(* The game rules: the registry of known rules and their vanilla defaults, and
   the client's calls on them. *)

\* The rule names of the registry, as texts.
Rule_doDaylightCycle ==
    <<"d", "o", "D", "a", "y", "l", "i", "g", "h", "t", "C", "y", "c", "l", "e">>
Rule_doFireTick == <<"d", "o", "F", "i", "r", "e", "T", "i", "c", "k">>
Rule_keepInventory == <<"k", "e", "e", "p", "I", "n", "v", "e", "n", "t", "o", "r", "y">>
Rule_maxCommandChainLength ==
    <<"m", "a", "x", "C", "o", "m", "m", "a", "n", "d", "C", "h", "a", "i", "n", "L", "e", "n", "g", "t", "h">>
Rule_spawnRadius == <<"s", "p", "a", "w", "n", "R", "a", "d", "i", "u", "s">>

boolRules ==
    { <<"a", "n", "n", "o", "u", "n", "c", "e", "A", "d", "v", "a", "n", "c", "e", "m", "e", "n", "t", "s">>,
      <<"d", "i", "s", "a", "b", "l", "e", "E", "l", "y", "t", "r", "a", "M", "o", "v", "e", "m", "e", "n", "t", "C", "h", "e", "c", "k">>,
      <<"d", "i", "s", "a", "b", "l", "e", "P", "l", "a", "y", "e", "r", "M", "o", "v", "e", "m", "e", "n", "t", "C", "h", "e", "c", "k">>,
      <<"d", "i", "s", "a", "b", "l", "e", "R", "a", "i", "d", "s">>,
      Rule_doDaylightCycle,
      <<"d", "o", "E", "n", "t", "i", "t", "y", "D", "r", "o", "p", "s">>,
      Rule_doFireTick,
      <<"d", "o", "I", "n", "s", "o", "m", "n", "i", "a">>,
      <<"d", "o", "I", "m", "m", "e", "d", "i", "a", "t", "e", "R", "e", "s", "p", "a", "w", "n">>,
      <<"d", "o", "L", "i", "m", "i", "t", "e", "d", "C", "r", "a", "f", "t", "i", "n", "g">>,
      <<"d", "o", "M", "o", "b", "L", "o", "o", "t">>,
      <<"d", "o", "M", "o", "b", "S", "p", "a", "w", "n", "i", "n", "g">>,
      <<"d", "o", "P", "a", "t", "r", "o", "l", "S", "p", "a", "w", "n", "i", "n", "g">>,
      <<"d", "o", "T", "i", "l", "e", "D", "r", "o", "p", "s">>,
      <<"d", "o", "T", "r", "a", "d", "e", "r", "S", "p", "a", "w", "n", "i", "n", "g">>,
      <<"d", "o", "V", "i", "n", "e", "s", "S", "p", "r", "e", "a", "d">>,
      <<"d", "o", "W", "e", "a", "t", "h", "e", "r", "C", "y", "c", "l", "e">>,
      <<"d", "o", "W", "a", "r", "d", "e", "n", "S", "p", "a", "w", "n", "i", "n", "g">>,
      <<"d", "r", "o", "w", "n", "i", "n", "g", "D", "a", "m", "a", "g", "e">>,
      <<"f", "a", "l", "l", "D", "a", "m", "a", "g", "e">>,
      <<"f", "i", "r", "e", "D", "a", "m", "a", "g", "e">>,
      <<"f", "o", "r", "g", "i", "v", "e", "D", "e", "a", "d", "P", "l", "a", "y", "e", "r", "s">>,
      Rule_keepInventory,
      <<"l", "o", "g", "A", "d", "m", "i", "n", "C", "o", "m", "m", "a", "n", "d", "s">>,
      <<"m", "o", "b", "G", "r", "i", "e", "f", "i", "n", "g">>,
      <<"n", "a", "t", "u", "r", "a", "l", "R", "e", "g", "e", "n", "e", "r", "a", "t", "i", "o", "n">>,
      <<"r", "e", "d", "u", "c", "e", "d", "D", "e", "b", "u", "g", "I", "n", "f", "o">>,
      <<"s", "e", "n", "d", "C", "o", "m", "m", "a", "n", "d", "F", "e", "e", "d", "b", "a", "c", "k">>,
      <<"s", "h", "o", "w", "D", "e", "a", "t", "h", "M", "e", "s", "s", "a", "g", "e", "s">>,
      <<"s", "p", "e", "c", "t", "a", "t", "o", "r", "s", "G", "e", "n", "e", "r", "a", "t", "e", "C", "h", "u", "n", "k", "s">>,
      <<"u", "n", "i", "v", "e", "r", "s", "a", "l", "A", "n", "g", "e", "r">> }

intRules ==
    { Rule_maxCommandChainLength,
      <<"m", "a", "x", "E", "n", "t", "i", "t", "y", "C", "r", "a", "m", "m", "i", "n", "g">>,
      <<"p", "l", "a", "y", "e", "r", "s", "S", "l", "e", "e", "p", "i", "n", "g", "P", "e", "r", "c", "e", "n", "t", "a", "g", "e">>,
      <<"r", "a", "n", "d", "o", "m", "T", "i", "c", "k", "S", "p", "e", "e", "d">>,
      Rule_spawnRadius }

defaultBoolRules ==
    (<<"a", "n", "n", "o", "u", "n", "c", "e", "A", "d", "v", "a", "n", "c", "e", "m", "e", "n", "t", "s">> :> TRUE) @@
    (<<"d", "i", "s", "a", "b", "l", "e", "E", "l", "y", "t", "r", "a", "M", "o", "v", "e", "m", "e", "n", "t", "C", "h", "e", "c", "k">> :> FALSE) @@
    (<<"d", "i", "s", "a", "b", "l", "e", "P", "l", "a", "y", "e", "r", "M", "o", "v", "e", "m", "e", "n", "t", "C", "h", "e", "c", "k">> :> FALSE) @@
    (<<"d", "i", "s", "a", "b", "l", "e", "R", "a", "i", "d", "s">> :> FALSE) @@
    (Rule_doDaylightCycle :> TRUE) @@
    (<<"d", "o", "E", "n", "t", "i", "t", "y", "D", "r", "o", "p", "s">> :> TRUE) @@
    (Rule_doFireTick :> TRUE) @@
    (<<"d", "o", "I", "n", "s", "o", "m", "n", "i", "a">> :> TRUE) @@
    (<<"d", "o", "I", "m", "m", "e", "d", "i", "a", "t", "e", "R", "e", "s", "p", "a", "w", "n">> :> FALSE) @@
    (<<"d", "o", "L", "i", "m", "i", "t", "e", "d", "C", "r", "a", "f", "t", "i", "n", "g">> :> FALSE) @@
    (<<"d", "o", "M", "o", "b", "L", "o", "o", "t">> :> TRUE) @@
    (<<"d", "o", "M", "o", "b", "S", "p", "a", "w", "n", "i", "n", "g">> :> TRUE) @@
    (<<"d", "o", "P", "a", "t", "r", "o", "l", "S", "p", "a", "w", "n", "i", "n", "g">> :> TRUE) @@
    (<<"d", "o", "T", "i", "l", "e", "D", "r", "o", "p", "s">> :> TRUE) @@
    (<<"d", "o", "T", "r", "a", "d", "e", "r", "S", "p", "a", "w", "n", "i", "n", "g">> :> TRUE) @@
    (<<"d", "o", "V", "i", "n", "e", "s", "S", "p", "r", "e", "a", "d">> :> TRUE) @@
    (<<"d", "o", "W", "e", "a", "t", "h", "e", "r", "C", "y", "c", "l", "e">> :> TRUE) @@
    (<<"d", "o", "W", "a", "r", "d", "e", "n", "S", "p", "a", "w", "n", "i", "n", "g">> :> TRUE) @@
    (<<"d", "r", "o", "w", "n", "i", "n", "g", "D", "a", "m", "a", "g", "e">> :> TRUE) @@
    (<<"f", "a", "l", "l", "D", "a", "m", "a", "g", "e">> :> TRUE) @@
    (<<"f", "i", "r", "e", "D", "a", "m", "a", "g", "e">> :> TRUE) @@
    (<<"f", "o", "r", "g", "i", "v", "e", "D", "e", "a", "d", "P", "l", "a", "y", "e", "r", "s">> :> TRUE) @@
    (Rule_keepInventory :> FALSE) @@
    (<<"l", "o", "g", "A", "d", "m", "i", "n", "C", "o", "m", "m", "a", "n", "d", "s">> :> TRUE) @@
    (<<"m", "o", "b", "G", "r", "i", "e", "f", "i", "n", "g">> :> TRUE) @@
    (<<"n", "a", "t", "u", "r", "a", "l", "R", "e", "g", "e", "n", "e", "r", "a", "t", "i", "o", "n">> :> TRUE) @@
    (<<"r", "e", "d", "u", "c", "e", "d", "D", "e", "b", "u", "g", "I", "n", "f", "o">> :> FALSE) @@
    (<<"s", "e", "n", "d", "C", "o", "m", "m", "a", "n", "d", "F", "e", "e", "d", "b", "a", "c", "k">> :> TRUE) @@
    (<<"s", "h", "o", "w", "D", "e", "a", "t", "h", "M", "e", "s", "s", "a", "g", "e", "s">> :> TRUE) @@
    (<<"s", "p", "e", "c", "t", "a", "t", "o", "r", "s", "G", "e", "n", "e", "r", "a", "t", "e", "C", "h", "u", "n", "k", "s">> :> TRUE) @@
    (<<"u", "n", "i", "v", "e", "r", "s", "a", "l", "A", "n", "g", "e", "r">> :> FALSE)

\* A table of integer defaults without one of the integer rules.
defaultIntRulesShort ==
    (Rule_maxCommandChainLength :> 65536) @@
    (<<"r", "a", "n", "d", "o", "m", "T", "i", "c", "k", "S", "p", "e", "e", "d">> :> 3)

defaultIntRules ==
    (Rule_maxCommandChainLength :> 65536) @@
    (<<"m", "a", "x", "E", "n", "t", "i", "t", "y", "C", "r", "a", "m", "m", "i", "n", "g">> :> 24) @@
    (<<"p", "l", "a", "y", "e", "r", "s", "S", "l", "e", "e", "p", "i", "n", "g", "P", "e", "r", "c", "e", "n", "t", "a", "g", "e">> :> 100) @@
    (<<"r", "a", "n", "d", "o", "m", "T", "i", "c", "k", "S", "p", "e", "e", "d">> :> 3) @@
    (Rule_spawnRadius :> 5)

isBoolRule(rule) == rule \in boolRules

isIntRule(rule) == rule \in intRules

\* The client's calls return the commands they sent and their error ("" for nil);
\* reply is the transport's answer to the command, if one is sent.

\* A check that lets any rule of the registry through.
SetGameRuleBoolAnyKnown(rule, value, reply) ==
    LET name == TrimSpace(rule)
    IN  IF ~(isBoolRule(name) \/ isIntRule(name))
        THEN [cmds |-> <<>>, err |-> "gamerule %q is not a known boolean rule"]
        ELSE [cmds |-> <<"gamerule " \o Str(name) \o " " \o FmtBool(value)>>,
              err |-> IF reply.ok THEN "" ELSE "send command"]

SetGameRuleBool(rule, value, reply) ==
    LET name == TrimSpace(rule)
    IN  IF ~isBoolRule(name)
        THEN [cmds |-> <<>>, err |-> "gamerule %q is not a known boolean rule"]
        ELSE [cmds |-> <<"gamerule " \o Str(name) \o " " \o FmtBool(value)>>,
              err |-> IF reply.ok THEN "" ELSE "send command"]

SetGameRuleInt(rule, value, reply) ==
    LET name == TrimSpace(rule)
    IN  IF ~isIntRule(name)
        THEN [cmds |-> <<>>, err |-> "gamerule %q is not a known integer rule"]
        ELSE [cmds |-> <<"gamerule " \o Str(name) \o " " \o FmtInt(value)>>,
              err |-> IF reply.ok THEN "" ELSE "send command"]

\* strings.Fields: the runs of non-blank characters.
RECURSIVE Fields(_)
Fields(s) ==
    LET t == TrimLeft(s)
        stops == {i \in 1..Len(t) : t[i] \in Blank}
        n == IF stops = {} THEN Len(t) + 1 ELSE CHOOSE i \in stops : \A j \in stops : i <= j
    IN  IF t = <<>> THEN <<>>
        ELSE <<SubSeq(t, 1, n - 1)>> \o Fields(SubSeq(t, n, Len(t)))

Text_true == <<"t", "r", "u", "e">>

Text_false == <<"f", "a", "l", "s", "e">>

\* A scan that takes the first field that qualifies.
GetGameRuleFirstToken(rule, reply) ==
    LET name == TrimSpace(rule)
        line == TrimSpace(reply.text)
        fields == Fields(line)
        Hit(i) == ToLower(TrimSpace(fields[i])) \in {Text_true, Text_false}
                      \/ Atoi(TrimSpace(fields[i])).ok
        hits == {i \in 1..Len(fields) : Hit(i)}
        at == CHOOSE i \in hits : \A j \in hits : i <= j
        f == TrimSpace(fields[at])
        value == IF Len(fields) = 1 THEN fields[1]
                 ELSE IF hits = {} THEN line
                 ELSE IF ToLower(f) \in {Text_true, Text_false} THEN ToLower(f)
                 ELSE f
    IN  IF ~reply.ok
        THEN [cmds |-> <<"gamerule " \o Str(name)>>, err |-> "send command", value |-> <<>>]
        ELSE [cmds |-> <<"gamerule " \o Str(name)>>, err |-> "", value |-> value]

\* The last field of the reply that is true/false (lowered) or an integer; the
\* only field if there is one; else the whole line.
GetGameRule(rule, reply) ==
    LET name == TrimSpace(rule)
        line == TrimSpace(reply.text)
        fields == Fields(line)
        Hit(i) == ToLower(TrimSpace(fields[i])) \in {Text_true, Text_false}
                      \/ Atoi(TrimSpace(fields[i])).ok
        hits == {i \in 1..Len(fields) : Hit(i)}
        at == CHOOSE i \in hits : \A j \in hits : j <= i
        f == TrimSpace(fields[at])
        value == IF Len(fields) = 1 THEN fields[1]
                 ELSE IF hits = {} THEN line
                 ELSE IF ToLower(f) \in {Text_true, Text_false} THEN ToLower(f)
                 ELSE f
    IN  IF ~reply.ok
        THEN [cmds |-> <<"gamerule " \o Str(name)>>, err |-> "send command", value |-> <<>>]
        ELSE [cmds |-> <<"gamerule " \o Str(name)>>, err |-> "", value |-> value]

\* A reset that turns every boolean rule on.
ResetGameRuleToOn(rule, reply) ==
    LET name == TrimSpace(rule)
    IN  IF name \in DOMAIN defaultBoolRules
        THEN SetGameRuleBool(name, TRUE, reply)
        ELSE IF name \in DOMAIN defaultIntRules
        THEN SetGameRuleInt(name, defaultIntRules[name], reply)
        ELSE [cmds |-> <<>>, err |-> "no known default for gamerule %q; cannot reset"]

ResetGameRuleToDefault(rule, reply) ==
    LET name == TrimSpace(rule)
    IN  IF name \in DOMAIN defaultBoolRules
        THEN SetGameRuleBool(name, defaultBoolRules[name], reply)
        ELSE IF name \in DOMAIN defaultIntRules
        THEN SetGameRuleInt(name, defaultIntRules[name], reply)
        ELSE [cmds |-> <<>>, err |-> "no known default for gamerule %q; cannot reset"]

----------------------------------------------------------------------------
(* The game-rule resource. *)

\* Rule names a configuration is written with: a boolean rule, an integer rule
\* with blanks around it, a name outside the registry.
GameruleNames ==
    {Rule_keepInventory,
     <<" ">> \o Rule_spawnRadius \o <<" ">>,
     <<"f", "o", "o", "R", "u", "l", "e">>}

GameruleValues ==
    {<<"5">>, <<"-", "3">>, Text_true, <<" ", "F", "a", "l", "s", "e", " ">>,
     <<"y", "e", "s">>, <<"1", "b">>, <<>>}

GameruleConfigs ==
    {[Id |-> <<>>, Name |-> n, Value |-> v] : n \in GameruleNames, v \in GameruleValues}

\* The ids an import is asked for: every rule of the registry and the names above.
GameruleImportIds == boolRules \cup intRules \cup GameruleNames

\* Replies of the server to the query of a rule.
Reply_42 == [ok |-> TRUE, text |-> <<"4", "2">>]

Reply_doFireTick ==
    [ok |-> TRUE,
     text |->
        <<"G", "a", "m", "e", "r", "u", "l", "e", " ", "d", "o", "F", "i", "r", "e", "T",
          "i", "c", "k", " ", "i", "s", " ", "c", "u", "r", "r", "e", "n", "t", "l", "y",
          " ", "s", "e", "t", " ", "t", "o", ":", " ", "t", "r", "u", "e">>]

RuleReplies ==
    {ErrReply, Reply_42, Reply_doFireTick,
     [ok |-> TRUE, text |-> Text_true],
     [ok |-> TRUE, text |-> <<"i", "s", ":", " ", "5", "\n">>],
     [ok |-> TRUE, text |-> <<"F", "A", "L", "S", "E", " ", "n", "o", "w">>],
     [ok |-> TRUE, text |-> <<"7", " ", "T", "r", "u", "e", " ", "8", "x">>],
     [ok |-> TRUE, text |-> <<"n", "o", " ", "r", "u", "l", "e">>],
     [ok |-> TRUE, text |-> <<>>]}

gameruleCreate(plan, tr) ==
    LET name == TrimSpace(plan.Name)
        val == TrimSpace(plan.Value)
        i == Atoi(val)
        lv == ToLower(val)
        set == IF i.ok THEN SetGameRuleInt(name, i.val, tr[1])
               ELSE SetGameRuleBool(name, lv = Text_true, tr[1])
    IN  IF ~i.ok /\ lv \notin {Text_true, Text_false}
        THEN Out(<<>>, <<Diag("Invalid Gamerule Value",
                              "Value %q is neither an integer nor true/false.", 0)>>,
                 <<>>, <<>>)
        ELSE IF set.err # ""
        THEN Out(set.cmds,
                 <<Diag("Client Error", "Unable to set gamerule %q: %s", Len(set.cmds))>>,
                 <<>>, <<>>)
        ELSE Out(set.cmds, <<>>, <<>>, <<[plan EXCEPT !.Id = name]>>)

gameruleRead(state, tr) ==
    LET name == TrimSpace(state.Name)
        got == GetGameRule(name, tr[1])
    IN  IF got.err # ""
        THEN Out(got.cmds, <<Diag("Client Error", "Unable to read gamerule %q: %s", 1)>>,
                 <<>>, <<>>)
        ELSE Out(got.cmds, <<>>, <<>>, <<[state EXCEPT !.Value = TrimSpace(got.value)]>>)

gameruleUpdate(plan, tr) ==
    LET name == TrimSpace(plan.Name)
        val == TrimSpace(plan.Value)
        i == Atoi(val)
        lv == ToLower(val)
        set == IF i.ok THEN SetGameRuleInt(name, i.val, tr[1])
               ELSE SetGameRuleBool(name, lv = Text_true, tr[1])
    IN  IF ~i.ok /\ lv \notin {Text_true, Text_false}
        THEN Out(<<>>, <<Diag("Invalid Gamerule Value",
                              "Value %q is neither an integer nor true/false.", 0)>>,
                 <<>>, <<>>)
        ELSE IF set.err # ""
        THEN Out(set.cmds,
                 <<Diag("Client Error", "Unable to set gamerule %q: %s", Len(set.cmds))>>,
                 <<>>, <<>>)
        ELSE Out(set.cmds, <<>>, <<>>, <<plan>>)

\* A failed reset, for want of a default too, is a warning.
gameruleDelete(state, tr) ==
    LET name == TrimSpace(state.Name)
        reset == ResetGameRuleToDefault(name, tr[1])
    IN  IF reset.err # ""
        THEN Out(reset.cmds, <<>>,
                 <<Diag("Reset Warning", "Could not reset gamerule %q to default: %s",
                        Len(reset.cmds))>>,
                 <<>>)
        ELSE Out(reset.cmds, <<>>, <<>>, <<>>)

gameruleImportState(id, tr) ==
    LET name == TrimSpace(id)
        got == GetGameRule(name, tr[1])
    IN  IF got.err # ""
        THEN Out(got.cmds, <<Diag("Import Error", "Unable to read gamerule %q: %s", 1)>>,
                 <<>>, <<>>)
        ELSE Out(got.cmds, <<>>, <<>>,
                 <<[Id |-> name, Name |-> name, Value |-> TrimSpace(got.value)]>>)

----------------------------------------------------------------------------
(* Team membership: the client's join and leave calls and the resource. *)

\* strings.Join(targets, " ")
RECURSIVE JoinBySpace(_)
JoinBySpace(targets) ==
    IF targets = <<>> THEN <<>>
    ELSE IF Len(targets) = 1 THEN targets[1]
    ELSE targets[1] \o <<" ">> \o JoinBySpace(Tail(targets))

\* The commands JoinTeamTargets sends for the targets (none for no target).
JoinTeamTargets(team, targets) ==
    IF Len(targets) = 0 THEN <<>>
    ELSE <<"team join " \o Str(team) \o " " \o Str(JoinBySpace(targets))>>

LeaveTeamTargets(targets) ==
    IF Len(targets) = 0 THEN <<>>
    ELSE <<"team leave " \o Str(JoinBySpace(targets))>>

JoinTeamPlayers(team, players) == JoinTeamTargets(team, players)

LeaveTeamPlayers(players) == LeaveTeamTargets(players)

SelectorHead == <<"@", "e", "[", "n", "b", "t", "=", "{", "C", "u", "s", "t", "o", "m", "N", "a", "m", "e", ":", "'", "{", "\"", "t", "e", "x", "t", "\"", ":", "\"">>

SelectorTail == <<"\"", "}", "'", "}", "]">>

\* A selector that embeds the name as it is.
selectorByRawName(name) == SelectorHead \o name \o SelectorTail

selectorByCustomName(name) == SelectorHead \o EscapeQuotes(name) \o SelectorTail

JoinTeamEntityByName(team, customName) ==
    JoinTeamTargets(team, <<selectorByCustomName(customName)>>)

LeaveTeamEntityByName(customName) == LeaveTeamTargets(<<selectorByCustomName(customName)>>)

Kind_player == <<"p", "l", "a", "y", "e", "r">>

Kind_selector == <<"s", "e", "l", "e", "c", "t", "o", "r">>

Kind_entity == <<"e", "n", "t", "i", "t", "y">>

\* strings.SplitN(s, "|", 3)
SplitN3(s) ==
    LET Bars(t) == {i \in 1..Len(t) : t[i] = "|"}
        First(t) == CHOOSE i \in Bars(t) : \A j \in Bars(t) : i <= j
        rest1 == SubSeq(s, First(s) + 1, Len(s))
    IN  IF Bars(s) = {} THEN <<s>>
        ELSE IF Bars(rest1) = {} THEN <<SubSeq(s, 1, First(s) - 1), rest1>>
        ELSE <<SubSeq(s, 1, First(s) - 1), SubSeq(rest1, 1, First(rest1) - 1),
               SubSeq(rest1, First(rest1) + 1, Len(rest1))>>

\* An attribute of the membership is set: not null and not blank.
IsSet(a) == ~a.Null /\ TrimSpace(a.Value) # <<>>

\* A pick that lets the last of several targets win.
validateAndPickLastTarget(d) ==
    LET cnt == (IF IsSet(d.Player) THEN 1 ELSE 0) + (IF IsSet(d.Selector) THEN 1 ELSE 0)
                   + (IF IsSet(d.EntityID) THEN 1 ELSE 0)
        none == [kind |-> <<>>, value |-> <<>>]
    IN  IF TrimSpace(d.Team.Value) = <<>>
        THEN none @@ [err |-> "team required",
                      diags |-> <<Diag("Validation Error", "team is required.", 0)>>]
        ELSE IF cnt = 0
        THEN none @@ [err |-> "no target",
                      diags |-> <<Diag("Validation Error",
                          "Exactly one of player, selector, or entity_id must be set.", 0)>>]
        ELSE [kind |-> IF IsSet(d.EntityID) THEN Kind_entity
                       ELSE IF IsSet(d.Selector) THEN Kind_selector ELSE Kind_player,
              value |-> IF IsSet(d.EntityID) THEN TrimSpace(d.EntityID.Value)
                        ELSE IF IsSet(d.Selector) THEN TrimSpace(d.Selector.Value)
                        ELSE TrimSpace(d.Player.Value),
              err |-> "", diags |-> <<>>]

\* The kind and value of the one target that is set, or an error with its diagnostic.
validateAndPickTarget(d) ==
    LET cnt == (IF IsSet(d.Player) THEN 1 ELSE 0) + (IF IsSet(d.Selector) THEN 1 ELSE 0)
                   + (IF IsSet(d.EntityID) THEN 1 ELSE 0)
        none == [kind |-> <<>>, value |-> <<>>]
    IN  IF TrimSpace(d.Team.Value) = <<>>
        THEN none @@ [err |-> "team required",
                      diags |-> <<Diag("Validation Error", "team is required.", 0)>>]
        ELSE IF cnt = 0
        THEN none @@ [err |-> "no target",
                      diags |-> <<Diag("Validation Error",
                          "Exactly one of player, selector, or entity_id must be set.", 0)>>]
        ELSE IF cnt > 1
        THEN none @@ [err |-> "multiple targets",
                      diags |-> <<Diag("Validation Error",
                          "Only one of player, selector, or entity_id may be set.", 0)>>]
        ELSE [kind |-> IF IsSet(d.EntityID) THEN Kind_entity
                       ELSE IF IsSet(d.Selector) THEN Kind_selector ELSE Kind_player,
              value |-> IF IsSet(d.EntityID) THEN TrimSpace(d.EntityID.Value)
                        ELSE IF IsSet(d.Selector) THEN TrimSpace(d.Selector.Value)
                        ELSE TrimSpace(d.Player.Value),
              err |-> "", diags |-> <<>>]

parseIDFallback(id) ==
    LET parts == SplitN3(id)
    IN  IF Len(parts) = 3 THEN [kind |-> parts[2], value |-> parts[3]]
        ELSE [kind |-> <<>>, value |-> <<>>]

\* Teams and targets the configurations are written with.
TeamMemberConfigs ==
    {[Id |-> <<>>, Team |-> StrOf(t), Player |-> p, Selector |-> sl, EntityID |-> e] :
        t \in {<<"b", "l", "u", "e">>, <<" ", "r", "e", "d", " ">>, <<" ">>, <<"a", "|", "b">>},
        p \in {NullStr, StrOf(<<" ">>), StrOf(<<" ", "S", "t", "e", "v", "e">>)},
        sl \in {NullStr, StrOf(<<>>), StrOf(<<"@", "a", "[", "t", "e", "a", "m", "=", "]">>)},
        e \in {NullStr, StrOf(<<"\t">>), StrOf(<<"A", "\"", "B">>)}}

\* The ids an import is asked for.
TeamMemberImportIds ==
    {<<"b", "l", "u", "e", "|", "p", "l", "a", "y", "e", "r", "|", "S", "t", "e", "v", "e">>,
     <<"b", "l", "u", "e", "|", "e", "n", "t", "i", "t", "y", "|", "A", "\"", "B">>,
     <<"|", "p", "l", "a", "y", "e", "r", "|", "S", "t", "e", "v", "e">>,
     <<"b", "l", "u", "e", "|", "e", "n", "t", "i", "t", "y", "|", " ">>,
     <<"b", "l", "u", "e", "|", "t", "a", "g", "|", "x">>,
     <<"b", "l", "u", "e", "|", "S", "t", "e", "v", "e">>,
     <<"r", "e", "d", "|", "s", "e", "l", "e", "c", "t", "o", "r", "|", "@", "e", "[", "n", "a", "m", "e", "=", "a", "|", "b", "]">>}

teamMemberCreate(plan, tr) ==
    LET pick == validateAndPickTarget(plan)
        team == TrimSpace(plan.Team.Value)
        cmds == CASE pick.kind = Kind_player -> JoinTeamPlayers(team, <<pick.value>>)
                  [] pick.kind = Kind_selector -> JoinTeamTargets(team, <<pick.value>>)
                  [] pick.kind = Kind_entity -> JoinTeamEntityByName(team, pick.value)
                  [] OTHER -> <<>>
        detail == CASE pick.kind = Kind_player -> "Unable to add player %q to team %q: %s"
                    [] pick.kind = Kind_selector -> "Unable to add selector %q to team %q: %s"
                    [] OTHER -> "Unable to add entity %q to team %q: %s"
        id == team \o <<"|">> \o pick.kind \o <<"|">> \o pick.value
    IN  IF pick.err # "" THEN Out(<<>>, pick.diags, <<>>, <<>>)
        ELSE IF pick.kind \notin {Kind_player, Kind_selector, Kind_entity}
        THEN Out(<<>>, <<Diag("Validation Error", "unknown membership kind", 0)>>, <<>>, <<>>)
        ELSE IF ~tr[1].ok
        THEN Out(cmds, <<Diag("Client Error", detail, 1)>>, <<>>, <<>>)
        ELSE Out(cmds, <<>>, <<>>, <<[plan EXCEPT !.Id = id]>>)

teamMemberUpdate(plan) ==
    Out(<<>>, <<>>,
        <<Diag("No-op Update",
               "All attributes are ForceNew; resource will be recreated if changed.", 0)>>,
        <<plan>>)

\* The validation's diagnostics of the stored state stay in the response; with no
\* target picked the kind and value are read from the id.
teamMemberDelete(state, tr) ==
    LET pick == validateAndPickTarget(state)
        fallback == parseIDFallback(state.Id)
        kd == IF pick.kind = <<>> \/ pick.value = <<>> THEN fallback.kind ELSE pick.kind
        val == IF pick.kind = <<>> \/ pick.value = <<>> THEN fallback.value ELSE pick.value
        cmds == CASE kd = Kind_player -> LeaveTeamPlayers(<<val>>)
                  [] kd = Kind_selector -> LeaveTeamTargets(<<val>>)
                  [] kd = Kind_entity -> LeaveTeamEntityByName(val)
                  [] OTHER -> <<>>
        detail == CASE kd = Kind_player -> "Unable to remove player %q from team: %s"
                    [] kd = Kind_selector -> "Unable to remove selector %q from team: %s"
                    [] OTHER -> "Unable to remove entity %q from team: %s"
    IN  IF cmds # <<>> /\ ~tr[1].ok
        THEN Out(cmds, pick.diags \o <<Diag("Client Error", detail, 1)>>, <<>>, <<>>)
        ELSE Out(cmds, pick.diags, <<>>, <<>>)

\* The attributes not named by the id are the zero value: not null, empty.
teamMemberImportState(id) ==
    LET parts == SplitN3(id)
        st == [Id |-> id, Team |-> StrOf(parts[1]), Player |-> StrOf(<<>>),
               Selector |-> StrOf(<<>>), EntityID |-> StrOf(<<>>)]
    IN  IF Len(parts) # 3
        THEN Out(<<>>, <<Diag("Import Error",
                              "Expected ID in format team|kind|value (e.g., blue|player|Steve).",
                              0)>>, <<>>, <<>>)
        ELSE CASE parts[2] = Kind_player ->
                    Out(<<>>, <<>>, <<>>, <<[st EXCEPT !.Player = StrOf(parts[3])]>>)
               [] parts[2] = Kind_selector ->
                    Out(<<>>, <<>>, <<>>, <<[st EXCEPT !.Selector = StrOf(parts[3])]>>)
               [] parts[2] = Kind_entity ->
                    Out(<<>>, <<>>, <<>>, <<[st EXCEPT !.EntityID = StrOf(parts[3])]>>)
               [] OTHER ->
                    Out(<<>>, <<Diag("Import Error",
                                     "kind must be one of player, selector, or entity.", 0)>>,
                        <<>>, <<>>)

----------------------------------------------------------------------------
(* Entities: the client's summon and removal and the resource. *)

CreateEntity(entity, position, id) ==
    "summon " \o entity \o " " \o position \o " {CustomName:'{\"text\":\"" \o Str(id) \o "\"}'}"

\* A removal that clears the inventories before it kills.
DeleteEntityClearFirst(entity, position, id, tr) ==
    LET kill == "kill @e[type=" \o entity \o ",nbt={CustomName:'{\"text\":\"" \o Str(id) \o "\"}'}]"
        clear == "clear @a " \o entity \o "{display:{Name:'{\"text\":\"" \o Str(id) \o "\"}'}}"
    IN  IF ~tr[1].ok THEN [cmds |-> <<clear>>, err |-> "send command"]
        ELSE IF ~tr[2].ok THEN [cmds |-> <<clear, kill>>, err |-> "send command"]
        ELSE [cmds |-> <<clear, kill>>, err |-> ""]

\* The commands DeleteEntity sends and its error ("" for nil): the kill, and
\* after its success the clear of the inventories.  The position is not used.
DeleteEntity(entity, position, id, tr) ==
    LET kill == "kill @e[type=" \o entity \o ",nbt={CustomName:'{\"text\":\"" \o Str(id) \o "\"}'}]"
        clear == "clear @a " \o entity \o "{display:{Name:'{\"text\":\"" \o Str(id) \o "\"}'}}"
    IN  IF ~tr[1].ok THEN [cmds |-> <<kill>>, err |-> "send command"]
        ELSE IF ~tr[2].ok THEN [cmds |-> <<kill, clear>>, err |-> "send command"]
        ELSE [cmds |-> <<kill, clear>>, err |-> ""]

\* Identifiers uuid.NewString can return.
EntityUuids ==
    {<<"1", "b", "4", "e", "2", "8", "b", "a", "-", "2", "f", "a", "1", "-", "4", "1", "d", "2", "-", "8", "8", "3", "f", "-", "0", "0", "1", "6", "d", "3", "c", "c", "a", "4", "2", "7">>,
     <<"6", "f", "a", "4", "5", "9", "e", "a", "-", "e", "e", "8", "a", "-", "4", "c", "a", "4", "-", "8", "9", "4", "e", "-", "d", "b", "7", "7", "e", "1", "6", "0", "3", "5", "5", "e">>}

\* Unset: type and position are null in the state (after an import by id only).
EntityConfigs ==
    {[Id |-> <<>>, Type |-> t, Position |-> c, Unset |-> FALSE] :
        t \in {"minecraft:armor_stand", "minecraft:pig"}, c \in Coordinates}

\* The ids an import is asked for.
EntityImportIds ==
    {<<"1", "b", "4", "e", "2", "8", "b", "a", "-", "2", "f", "a", "1", "-", "4", "1", "d", "2", "-", "8", "8", "3", "f", "-", "0", "0", "1", "6", "d", "3", "c", "c", "a", "4", "2", "7">>,
     <<"A", "\"", "B">>}

\* fmt.Sprintf("%d %d %d", x, y, z)
EntityPos(data) ==
    FmtInt(data.Position.X) \o " " \o FmtInt(data.Position.Y) \o " " \o FmtInt(data.Position.Z)

\* What Get reads from the state: with null attributes either an error
\* diagnostic or the zero values, as the framework converts them.
EntityGet(state, asEmpty) ==
    IF ~state.Unset THEN [ok |-> TRUE, data |-> state]
    ELSE IF asEmpty
    THEN [ok |-> TRUE,
          data |-> [state EXCEPT !.Type = "", !.Position = [X |-> 0, Y |-> 0, Z |-> 0],
                                 !.Unset = FALSE]]
    ELSE [ok |-> FALSE, data |-> state]

EntityGetError == Out(<<>>, <<Diag("Value Conversion Error", "unhandled null value", 0)>>, <<>>, <<>>)

entityCreate(data, id, tr) ==
    LET summon == CreateEntity(data.Type, EntityPos(data), id)
    IN  IF ~tr[1].ok
        THEN Out(<<summon>>, <<Diag("Client Error", "Unable to summon entity: %s", 1)>>,
                 <<>>, <<>>)
        ELSE Out(<<summon>>, <<>>, <<>>, <<[data EXCEPT !.Id = id]>>)

entityRead(state, asEmpty) ==
    LET got == EntityGet(state, asEmpty)
    IN  IF ~got.ok THEN EntityGetError ELSE Out(<<>>, <<>>, <<>>, <<got.data>>)

\* An Update that stores the plan without the id.
entityUpdateWithoutId(plan, asEmpty) ==
    LET got == EntityGet(plan, asEmpty)
    IN  IF ~got.ok THEN EntityGetError
        ELSE Out(<<>>, <<>>, <<>>, <<[got.data EXCEPT !.Id = <<>>]>>)

entityUpdate(plan, asEmpty) ==
    LET got == EntityGet(plan, asEmpty)
    IN  IF ~got.ok THEN EntityGetError ELSE Out(<<>>, <<>>, <<>>, <<got.data>>)

entityDelete(state, asEmpty, tr) ==
    LET got == EntityGet(state, asEmpty)
        del == DeleteEntity(got.data.Type, EntityPos(got.data), got.data.Id, tr)
    IN  IF ~got.ok THEN EntityGetError
        ELSE IF del.err # ""
        THEN Out(del.cmds,
                 <<Diag("Client Error", "Unable to delete entity: %s", Len(del.cmds))>>,
                 <<>>, <<>>)
        ELSE Out(del.cmds, <<>>, <<>>, <<>>)

\* ResourceImportStatePassthroughID: the id alone is set.
entityImportState(id) ==
    Out(<<>>, <<>>, <<>>,
        <<[Id |-> id, Type |-> "", Position |-> [X |-> 0, Y |-> 0, Z |-> 0], Unset |-> TRUE]>>)

----------------------------------------------------------------------------
(* The stairs resource. *)

CreateStairs(material, x, y, z, facing, half, shape, waterlogged) ==
    "setblock " \o FmtInt(x) \o " " \o FmtInt(y) \o " " \o FmtInt(z) \o " " \o material
        \o "[facing=" \o facing \o ",half=" \o half \o",shape=" \o shape
        \o ",waterlogged=" \o FmtBool(waterlogged) \o "] replace"

\* The stairs configurations; facing, half and shape are passed on as they are.
StairsConfigs ==
    {[Id |-> "", Material |-> "minecraft:oak_stairs", X |-> c.X, Y |-> c.Y, Z |-> c.Z,
      Facing |-> f, Half |-> "bottom", Shape |-> sh, Waterlogged |-> w] :
        c \in Coordinates, f \in {"north", "sideways"}, sh \in {"straight", "outer_left"},
        w \in OptBool}

stairsCreate(data, tr) ==
    LET place == CreateStairs(data.Material, data.X, data.Y, data.Z, data.Facing, data.Half,
                              data.Shape, Deref(data.Waterlogged))
        id == "stairs-" \o FmtInt(data.X) \o "-" \o FmtInt(data.Y) \o "-" \o FmtInt(data.Z)
    IN  IF ~tr[1].ok
        THEN Out(<<place>>,
                 <<Diag("Client Error", "Unable to create stairs, got error: %s", 1)>>,
                 <<>>, <<>>)
        ELSE Out(<<place>>, <<>>, <<>>, <<[data EXCEPT !.Id = id]>>)

stairsUpdate(data, tr) ==
    LET place == CreateStairs(data.Material, data.X, data.Y, data.Z, data.Facing, data.Half,
                              data.Shape, Deref(data.Waterlogged))
    IN  IF ~tr[1].ok
        THEN Out(<<place>>,
                 <<Diag("Client Error", "Unable to update stairs, got error: %s", 1)>>,
                 <<>>, <<>>)
        ELSE Out(<<place>>, <<>>, <<>>, <<data>>)

stairsDelete(state, tr) ==
    LET air == DeleteBlock(state.X, state.Y, state.Z)
    IN  IF ~tr[1].ok
        THEN Out(<<air>>,
                 <<Diag("Client Error", "Unable to delete block, got error: %s", 1)>>,
                 <<>>, <<>>)
        ELSE Out(<<air>>, <<>>, <<>>, <<>>)

----------------------------------------------------------------------------
(* The fill resource. *)

FillBlock(material, sx, sy, sz, ex, ey, ez) ==
    "fill " \o FmtInt(sx) \o " " \o FmtInt(sy) \o " " \o FmtInt(sz) \o " " \o FmtInt(ex)
        \o " " \o FmtInt(ey) \o " " \o FmtInt(ez) \o " " \o material \o " hollow"

\* The fill configurations: a region from a start corner to an end corner.
FillConfigs ==
    {[Id |-> "", Material |-> m, SX |-> c.X, SY |-> c.Y, SZ |-> c.Z,
      EX |-> c.X + 2, EY |-> c.Y + 1, EZ |-> c.Z + 2] :
        m \in {"minecraft:stone", "minecraft:glass"}, c \in Coordinates}

\* The id both Create and Update format from the data they were given.
fillId(data) ==
    data.Material \o "|" \o FmtInt(data.SX) \o "," \o FmtInt(data.SY) \o "," \o FmtInt(data.SZ)
        \o "->" \o FmtInt(data.EX) \o "," \o FmtInt(data.EY) \o "," \o FmtInt(data.EZ)

fillCreate(data, tr) ==
    LET fill == FillBlock(data.Material, data.SX, data.SY, data.SZ, data.EX, data.EY, data.EZ)
    IN  IF ~tr[1].ok
        THEN Out(<<fill>>, <<Diag("Client Error", "Unable to fill region: %s", 1)>>, <<>>, <<>>)
        ELSE Out(<<fill>>, <<>>, <<>>, <<[data EXCEPT !.Id = fillId(data)]>>)

\* An Update that stores the plan although the fill failed.
fillUpdateStoringAnyway(data, tr) ==
    LET fill == FillBlock(data.Material, data.SX, data.SY, data.SZ, data.EX, data.EY, data.EZ)
    IN  Out(<<fill>>,
            IF tr[1].ok THEN <<>>
            ELSE <<Diag("Client Error", "Unable to update filled region: %s", 1)>>,
            <<>>, <<[data EXCEPT !.Id = fillId(data)]>>)

fillUpdate(data, tr) ==
    LET fill == FillBlock(data.Material, data.SX, data.SY, data.SZ, data.EX, data.EY, data.EZ)
    IN  IF ~tr[1].ok
        THEN Out(<<fill>>, <<Diag("Client Error", "Unable to update filled region: %s", 1)>>,
                 <<>>, <<>>)
        ELSE Out(<<fill>>, <<>>, <<>>, <<[data EXCEPT !.Id = fillId(data)]>>)

fillDelete(state, tr) ==
    LET clear == FillBlock("minecraft:air", state.SX, state.SY, state.SZ,
                           state.EX, state.EY, state.EZ)
    IN  IF ~tr[1].ok
        THEN Out(<<clear>>, <<Diag("Client Error", "Unable to clear region: %s", 1)>>,
                 <<>>, <<>>)
        ELSE Out(<<clear>>, <<>>, <<>>, <<>>)

----------------------------------------------------------------------------
(* The operator grant. *)

CreateOp(name) == "op " \o Str(name)

RemoveOp(name) == "deop " \o Str(name)

\* The plans of a grant: a name, a name in blanks, a blank.
OpConfigs ==
    [ID : {<<>>}, Player : {<<"S", "t", "e", "v", "e">>, <<" ", "A", "l", "e", "x", " ">>, <<" ">>}]

opCreate(plan, tr) ==
    LET player == TrimSpace(plan.Player)
    IN  IF player = <<>>
        THEN Out(<<>>, <<Diag("Validation Error",
                              "Attribute player cannot be empty or whitespace.", 0)>>,
                 <<>>, <<>>)
        ELSE IF ~tr[1].ok
        THEN Out(<<CreateOp(player)>>,
                 <<Diag("Client Error", "Unable to grant operator to %q: %s", 1)>>, <<>>, <<>>)
        ELSE Out(<<CreateOp(player)>>, <<>>, <<>>, <<[plan EXCEPT !.ID = player]>>)

opDelete(state, tr) ==
    LET player == TrimSpace(state.Player)
    IN  IF player = <<>> THEN Out(<<>>, <<>>, <<>>, <<>>)
        ELSE IF ~tr[1].ok
        THEN Out(<<RemoveOp(player)>>,
                 <<Diag("Client Error", "Unable to revoke operator from %q: %s", 1)>>,
                 <<>>, <<>>)
        ELSE Out(<<RemoveOp(player)>>, <<>>, <<>>, <<>>)

----------------------------------------------------------------------------
(* The ban. *)

BanPlayer(player, reason) ==
    IF reason # <<>> THEN "ban " \o Str(player) \o " " \o Str(reason)
    ELSE "ban " \o Str(player)

\* Client.UnbanPlayer, by the command text of the specification.
UnbanPlayer(player) == "pardon " \o Str(player)

\* The plans of a ban; a null reason has the empty value.
BanConfigs ==
    [ID : {<<>>}, Player : {<<"S", "t", "e", "v", "e">>, <<"A", "l", "e", "x">>},
     Reason : {<<>>, <<"g", "r", "i", "e", "f">>}]

banCreate(data, tr) ==
    IF ~tr[1].ok
    THEN Out(<<BanPlayer(data.Player, data.Reason)>>,
             <<Diag("Failed to ban player", "%s", 1)>>, <<>>, <<>>)
    ELSE Out(<<BanPlayer(data.Player, data.Reason)>>, <<>>, <<>>,
             <<[data EXCEPT !.ID = data.Player]>>)

banUpdate(data, tr) ==
    IF ~tr[1].ok
    THEN Out(<<BanPlayer(data.Player, data.Reason)>>,
             <<Diag("Failed to ban player", "%s", 1)>>, <<>>, <<>>)
    ELSE Out(<<BanPlayer(data.Player, data.Reason)>>, <<>>, <<>>,
             <<[data EXCEPT !.ID = data.Player]>>)

banDelete(data, tr) ==
    IF ~tr[1].ok
    THEN Out(<<UnbanPlayer(data.Player)>>,
             <<Diag("Failed to unban player", "%s", 1)>>, <<>>, <<>>)
    ELSE Out(<<UnbanPlayer(data.Player)>>, <<>>, <<>>, <<>>)

----------------------------------------------------------------------------
(* The handler calls as actions. *)

Kinds == {"bed", "chest", "team", "gamemode", "daylock", "gamerule", "team_member",
          "entity", "stairs", "fill", "op", "ban"}

\* The kinds that are addressed on the server by a marker or a target kept in the
\* state; for them the commands of the Create are remembered.
MarkerKinds == {"team_member", "entity"}

NoCall ==
    [op |-> "none", input |-> <<>>, before |-> <<>>, transport |-> <<>>, cmds |-> <<>>,
     errors |-> <<>>, warnings |-> <<>>, wrote |-> FALSE]

\* One handler call under the transport behaviour tr (tr[i] is the reply to the
\* i-th command sent): its outcome is recorded, and the framework keeps the state
\* the handler set; after a Delete without error it drops the resource's state.
Call(op, input, tr, out) ==
    /\ last' = [op |-> op, input |-> input, before |-> stored, transport |-> tr,
                cmds |-> out.cmds, errors |-> out.errors,
                warnings |-> out.warnings, wrote |-> out.set # <<>>]
    /\ stored' = IF op = "Delete"
                 THEN (IF out.errors = <<>> THEN <<>> ELSE stored)
                 ELSE (IF out.set # <<>> THEN out.set ELSE stored)
    /\ made' = IF op = "Delete" /\ out.errors = <<>> THEN <<>>
               ELSE IF op = "Create" /\ kind \in MarkerKinds /\ out.set # <<>> THEN out.cmds
               ELSE made
    /\ held' = IF kind \notin {"op", "ban"} THEN held
               ELSE LET done == {out.cmds[i] : i \in {j \in 1..Len(out.cmds) : tr[j].ok}}
                        names == {TrimSpace(c.Player) : c \in OpConfigs}
                                     \cup {c.Player : c \in BanConfigs}
                        given == {p \in names :
                                     \/ CreateOp(p) \in done
                                     \/ \E c \in BanConfigs : BanPlayer(p, c.Reason) \in done}
                        taken == {p \in names : RemoveOp(p) \in done \/ UnbanPlayer(p) \in done}
                    IN  (held \cup given) \ taken
    \* The server's side of a game mode: the query of a Create tells the mode before
    \* it (first); prior is the mode before the latest Create or Update; a sequence
    \* is clean while every call succeeds and every later query tells the mode the
    \* last command set.
    /\ world' = LET unclean == [first |-> <<>>, prior |-> <<>>, now |-> <<>>,
                                clean |-> FALSE, updated |-> FALSE]
                    player == TrimSpace(input[1].Player)
                    got == IF player = <<>> THEN GetDefaultGameMode(tr[1])
                           ELSE GetUserGameMode(tr[1])
                    mode == ToLower(TrimSpace(input[1].Mode))
                IN  IF kind # "gamemode" \/ op = "Read" THEN world
                    ELSE IF out.errors # <<>> \/ out.warnings # <<>> \/ ~tr[1].ok
                    THEN unclean
                    ELSE IF op = "Delete"
                    THEN [world EXCEPT !.now = IF out.cmds = <<>> THEN @
                                               ELSE TrimSpace(stored[1].PreviousMode)]
                    ELSE IF op = "Create"
                    THEN (IF got.err # "" THEN unclean
                          ELSE [first |-> got.name, prior |-> got.name, now |-> mode,
                                clean |-> TRUE, updated |-> FALSE])
                    ELSE IF world.clean /\ got.err = "" /\ got.name = world.now
                                       /\ input[1].Mode # stored[1].Mode
                    THEN [world EXCEPT !.now = mode, !.prior = world.now, !.updated = TRUE]
                    ELSE unclean
    \* The server's side of a bed or a chest: a cell is taken or freed by the last
    \* command of the call that reached it; a sequence is clean while every Create
    \* and Update succeeds and every command of the Delete succeeds.
    /\ placed' = LET unclean == [at |-> {}, clean |-> FALSE, updated |-> FALSE]
                     data == IF op = "Delete" THEN stored[1] ELSE input[1]
                     near == {[X |-> data.X + dx, Y |-> data.Y, Z |-> data.Z + dz] :
                                 dx \in -1..1, dz \in -1..1}
                     blocks == IF op = "Delete" THEN {}
                               ELSE IF kind = "bed"
                               THEN {bedPartMat(data, part) : part \in {"foot", "head"}}
                               ELSE {chestBlock(data, type) : type \in {"single", "left", "right"}}
                     sets(c) == {i \in 1..Len(out.cmds) :
                                    \E b \in blocks : out.cmds[i] = CreateBlock(b, c.X, c.Y, c.Z)}
                     airs(c) == {i \in 1..Len(out.cmds) : out.cmds[i] = DeleteBlock(c.X, c.Y, c.Z)}
                     after(c) == IF sets(c) \cup airs(c) = {} THEN c \in placed.at
                                 ELSE \E i \in sets(c) : \A j \in airs(c) : j < i
                     at == (placed.at \ near) \cup {c \in near : after(c)}
                 IN  IF kind \notin {"bed", "chest"} \/ op = "Read" THEN placed
                     ELSE IF out.errors # <<>> \/ \E i \in 1..Len(out.cmds) : ~tr[i].ok
                     THEN unclean
                     ELSE IF op = "Create"
                     THEN [at |-> {c \in near : sets(c) # {}}, clean |-> TRUE, updated |-> FALSE]
                     ELSE IF ~placed.clean THEN unclean
                     ELSE [placed EXCEPT !.at = at, !.updated = @ \/ op = "Update"]
    /\ UNCHANGED kind

\* Every behaviour of the transport over n commands.
Replies(n) == [1..n -> PlainReplies]

\* The behaviours with at most one failing command among n.
SingleFault(n) == {[i \in 1..n |-> IF i = k THEN ErrReply ELSE OkReply] : k \in 0..n}

\* The framework's calls of the bedResource handlers, one disjunct for each.
bedResource ==
    \/ /\ kind = "bed" /\ stored = <<>>
       /\ \E data \in BedConfigs, tr \in Replies(3) :
             Call("Create", <<data>>, tr, bedCreate(data, tr))
    \* Read sets the state it read.
    \/ /\ kind = "bed" /\ stored # <<>>
       /\ Call("Read", <<>>, <<>>, Out(<<>>, <<>>, <<>>, stored))
    \* The position is RequiresReplace and the id is UseStateForUnknown: the plan of an
    \* Update carries the stored ones.
    \/ /\ kind = "bed" /\ stored # <<>>
       /\ \E cfg \in BedConfigs, tr \in Replies(2) :
             /\ <<cfg.X, cfg.Y, cfg.Z>> = <<stored[1].X, stored[1].Y, stored[1].Z>>
             /\ LET data == [cfg EXCEPT !.Id = stored[1].Id]
                IN  Call("Update", <<data>>, tr, bedUpdate(data, tr))
    \/ /\ kind = "bed" /\ stored # <<>>
       /\ \E tr \in Replies(2) : Call("Delete", <<>>, tr, bedDelete(stored[1], tr))

\* The framework's calls of the chestResource handlers, one disjunct for each.
chestResource ==
    \/ /\ kind = "chest" /\ stored = <<>>
       /\ \E data \in ChestConfigs, tr \in Replies(3) :
             Call("Create", <<data>>, tr, chestCreate(data, tr))
    \* Read sets the state it read.
    \/ /\ kind = "chest" /\ stored # <<>>
       /\ Call("Read", <<>>, <<>>, Out(<<>>, <<>>, <<>>, stored))
    \* No attribute of the chest is RequiresReplace: the plan of an Update may differ
    \* from the state in any of them; the id is UseStateForUnknown.
    \/ /\ kind = "chest" /\ stored # <<>>
       /\ \E cfg \in ChestConfigs, tr \in Replies(2) :
             LET data == [cfg EXCEPT !.Id = stored[1].Id]
             IN  Call("Update", <<data>>, tr, chestUpdate(data, tr))
    \/ /\ kind = "chest" /\ stored # <<>>
       /\ \E tr \in Replies(2) : Call("Delete", <<>>, tr, chestDelete(stored[1], tr))

\* The framework's calls of the teamResource handlers, one disjunct for each.
teamResource ==
    \/ /\ kind = "team" /\ stored = <<>>
       /\ \E plan \in TeamConfigs, tr \in SingleFault(6) :
             Call("Create", <<plan>>, tr, teamCreate(plan, tr))
    \* Read sets the state it read.
    \/ /\ kind = "team" /\ stored # <<>>
       /\ Call("Read", <<>>, <<>>, Out(<<>>, <<>>, <<>>, stored))
    \* The name is RequiresReplace and the id is UseStateForUnknown.
    \/ /\ kind = "team" /\ stored # <<>>
       /\ \E cfg \in TeamConfigs, tr \in SingleFault(6) :
             /\ cfg.Name = stored[1].Name
             /\ LET plan == [cfg EXCEPT !.Id = stored[1].Id]
                IN  Call("Update", <<plan>>, tr, teamUpdate(plan, stored[1], tr))
    \/ /\ kind = "team" /\ stored # <<>>
       /\ \E tr \in Replies(1) : Call("Delete", <<>>, tr, teamDelete(stored[1], tr))

\* The framework's calls of the gamemodeResource handlers, one disjunct for each.
gamemodeResource ==
    \/ /\ kind = "gamemode" /\ stored = <<>>
       /\ \E plan \in GameModeConfigs, q \in ModeReplies, r \in PlainReplies :
             Call("Create", <<plan>>, <<q, r>>, gamemodeCreate(plan, <<q, r>>))
    \* Read sets the state it read.
    \/ /\ kind = "gamemode" /\ stored # <<>>
       /\ Call("Read", <<>>, <<>>, Out(<<>>, <<>>, <<>>, stored))
    \* The player is RequiresReplace, the id is UseStateForUnknown; previous_mode is
    \* computed and the plan does not know it.
    \/ /\ kind = "gamemode" /\ stored # <<>>
       /\ \E cfg \in GameModeConfigs, q \in ModeReplies, r \in PlainReplies :
             /\ cfg.Player = stored[1].Player
             /\ LET plan == [cfg EXCEPT !.Id = stored[1].Id]
                IN  Call("Update", <<plan>>, <<q, r>>, gamemodeUpdate(plan, stored[1], <<q, r>>))
    \/ /\ kind = "gamemode" /\ stored # <<>>
       /\ \E tr \in Replies(1) : Call("Delete", <<>>, tr, gamemodeDelete(stored[1], tr))

\* The framework's calls of the daylockResource handlers, one disjunct for each.
daylockResource ==
    \/ /\ kind = "daylock" /\ stored = <<>>
       /\ \E plan \in DaylockConfigs, tr \in Replies(1) :
             Call("Create", <<plan>>, tr, daylockCreate(plan, tr))
    \* Read sets the state it read.
    \/ /\ kind = "daylock" /\ stored # <<>>
       /\ Call("Read", <<>>, <<>>, Out(<<>>, <<>>, <<>>, stored))
    \/ /\ kind = "daylock" /\ stored # <<>>
       /\ \E cfg \in DaylockConfigs, tr \in Replies(1) :
             LET plan == [cfg EXCEPT !.Id = stored[1].Id]
             IN  Call("Update", <<plan>>, tr, daylockUpdate(plan, tr))
    \/ /\ kind = "daylock" /\ stored # <<>>
       /\ \E tr \in Replies(1) : Call("Delete", <<>>, tr, daylockDelete(tr))

\* The framework's calls of the gameruleResource handlers, one disjunct for each.
gameruleResource ==
    \/ /\ kind = "gamerule" /\ stored = <<>>
       /\ \E plan \in GameruleConfigs, tr \in Replies(1) :
             Call("Create", <<plan>>, tr, gameruleCreate(plan, tr))
    \/ /\ kind = "gamerule" /\ stored = <<>>
       /\ \E id \in GameruleImportIds, q \in RuleReplies :
             Call("ImportState", <<id>>, <<q>>, gameruleImportState(id, <<q>>))
    \/ /\ kind = "gamerule" /\ stored # <<>>
       /\ \E q \in RuleReplies : Call("Read", <<>>, <<q>>, gameruleRead(stored[1], <<q>>))
    \* The name is RequiresReplace, the id is UseStateForUnknown.
    \/ /\ kind = "gamerule" /\ stored # <<>>
       /\ \E v \in GameruleValues, tr \in Replies(1) :
             LET plan == [stored[1] EXCEPT !.Value = v]
             IN  Call("Update", <<plan>>, tr, gameruleUpdate(plan, tr))
    \/ /\ kind = "gamerule" /\ stored # <<>>
       /\ \E tr \in Replies(1) : Call("Delete", <<>>, tr, gameruleDelete(stored[1], tr))

\* The framework's calls of the teamMemberResource handlers, one disjunct for each.
teamMemberResource ==
    \/ /\ kind = "team_member" /\ stored = <<>>
       /\ \E plan \in TeamMemberConfigs, tr \in Replies(1) :
             Call("Create", <<plan>>, tr, teamMemberCreate(plan, tr))
    \* An import is asked for the ids above or for an id a Create has stored.
    \/ /\ kind = "team_member" /\ stored = <<>>
       /\ \E id \in TeamMemberImportIds
                       \cup {teamMemberCreate(p, <<OkReply>>).set[1].Id :
                               p \in {q \in TeamMemberConfigs :
                                         teamMemberCreate(q, <<OkReply>>).set # <<>>}} :
             Call("ImportState", <<id>>, <<>>, teamMemberImportState(id))
    \* Read sets the state it read.
    \/ /\ kind = "team_member" /\ stored # <<>>
       /\ Call("Read", <<>>, <<>>, Out(<<>>, <<>>, <<>>, stored))
    \* Every attribute is RequiresReplace: the plan of an Update is the stored state.
    \/ /\ kind = "team_member" /\ stored # <<>>
       /\ Call("Update", <<stored[1]>>, <<>>, teamMemberUpdate(stored[1]))
    \/ /\ kind = "team_member" /\ stored # <<>>
       /\ \E tr \in Replies(1) : Call("Delete", <<>>, tr, teamMemberDelete(stored[1], tr))

\* The framework's calls of the entityResource handlers, one disjunct for each.
entityResource ==
    \/ /\ kind = "entity" /\ stored = <<>>
       /\ \E data \in EntityConfigs, id \in EntityUuids, tr \in Replies(1) :
             Call("Create", <<data>>, tr, entityCreate(data, id, tr))
    \/ /\ kind = "entity" /\ stored = <<>>
       /\ \E id \in EntityImportIds : Call("ImportState", <<id>>, <<>>, entityImportState(id))
    \/ /\ kind = "entity" /\ stored # <<>>
       /\ \E asEmpty \in BOOLEAN :
             Call("Read", <<>>, <<>>, entityRead(stored[1], asEmpty))
    \* Type and position are RequiresReplace, the id is UseStateForUnknown: the plan of
    \* an Update is the stored state.
    \/ /\ kind = "entity" /\ stored # <<>>
       /\ \E asEmpty \in BOOLEAN :
             Call("Update", <<stored[1]>>, <<>>, entityUpdate(stored[1], asEmpty))
    \/ /\ kind = "entity" /\ stored # <<>>
       /\ \E asEmpty \in BOOLEAN, tr \in Replies(2) :
             Call("Delete", <<>>, tr, entityDelete(stored[1], asEmpty, tr))

\* The framework's calls of the stairsResource handlers, one disjunct for each.
stairsResource ==
    \/ /\ kind = "stairs" /\ stored = <<>>
       /\ \E data \in StairsConfigs, tr \in Replies(1) :
             Call("Create", <<data>>, tr, stairsCreate(data, tr))
    \* Read sets the state it read.
    \/ /\ kind = "stairs" /\ stored # <<>>
       /\ Call("Read", <<>>, <<>>, Out(<<>>, <<>>, <<>>, stored))
    \* The position is RequiresReplace and the id is UseStateForUnknown.
    \/ /\ kind = "stairs" /\ stored # <<>>
       /\ \E cfg \in StairsConfigs, tr \in Replies(1) :
             /\ <<cfg.X, cfg.Y, cfg.Z>> = <<stored[1].X, stored[1].Y, stored[1].Z>>
             /\ LET data == [cfg EXCEPT !.Id = stored[1].Id]
                IN  Call("Update", <<data>>, tr, stairsUpdate(data, tr))
    \/ /\ kind = "stairs" /\ stored # <<>>
       /\ \E tr \in Replies(1) : Call("Delete", <<>>, tr, stairsDelete(stored[1], tr))

\* The framework's calls of the fillResource handlers, one disjunct for each.
fillResource ==
    \/ /\ kind = "fill" /\ stored = <<>>
       /\ \E data \in FillConfigs, tr \in Replies(1) :
             Call("Create", <<data>>, tr, fillCreate(data, tr))
    \* Read sets the state it read.
    \/ /\ kind = "fill" /\ stored # <<>>
       /\ Call("Read", <<>>, <<>>, Out(<<>>, <<>>, <<>>, stored))
    \* Both corners are RequiresReplace and the id is UseStateForUnknown.
    \/ /\ kind = "fill" /\ stored # <<>>
       /\ \E cfg \in FillConfigs, tr \in Replies(1) :
             /\ <<cfg.SX, cfg.SY, cfg.SZ>> = <<stored[1].SX, stored[1].SY, stored[1].SZ>>
             /\ <<cfg.EX, cfg.EY, cfg.EZ>> = <<stored[1].EX, stored[1].EY, stored[1].EZ>>
             /\ LET data == [cfg EXCEPT !.Id = stored[1].Id]
                IN  Call("Update", <<data>>, tr, fillUpdate(data, tr))
    \/ /\ kind = "fill" /\ stored # <<>>
       /\ \E tr \in Replies(1) : Call("Delete", <<>>, tr, fillDelete(stored[1], tr))

\* The framework's calls of the opResource handlers, one disjunct for each.
opResource ==
    \/ /\ kind = "op" /\ stored = <<>>
       /\ \E plan \in OpConfigs, tr \in Replies(1) :
             Call("Create", <<plan>>, tr, opCreate(plan, tr))
    \* Read sets the state it read.
    \/ /\ kind = "op" /\ stored # <<>>
       /\ Call("Read", <<>>, <<>>, Out(<<>>, <<>>, <<>>, stored))
    \* The player is RequiresReplace and the id is UseStateForUnknown: the plan of an
    \* Update is the stored state, and Update sets it.
    \/ /\ kind = "op" /\ stored # <<>>
       /\ Call("Update", stored, <<>>, Out(<<>>, <<>>, <<>>, stored))
    \/ /\ kind = "op" /\ stored # <<>>
       /\ \E tr \in Replies(1) : Call("Delete", <<>>, tr, opDelete(stored[1], tr))

\* The framework's calls of the banResourceImpl handlers, one disjunct for each.
banResourceImpl ==
    \/ /\ kind = "ban" /\ stored = <<>>
       /\ \E data \in BanConfigs, tr \in Replies(1) :
             Call("Create", <<data>>, tr, banCreate(data, tr))
    \* Read has an empty body: the state stays as the framework handed it in.
    \/ /\ kind = "ban" /\ stored # <<>>
       /\ Call("Read", <<>>, <<>>, Out(<<>>, <<>>, <<>>, <<>>))
    \* No attribute is RequiresReplace, and the id is computed anew.
    \/ /\ kind = "ban" /\ stored # <<>>
       /\ \E data \in BanConfigs, tr \in Replies(1) :
             Call("Update", <<data>>, tr, banUpdate(data, tr))
    \/ /\ kind = "ban" /\ stored # <<>>
       /\ \E tr \in Replies(1) : Call("Delete", <<>>, tr, banDelete(stored[1], tr))

Init ==
    /\ kind \in Kinds
    /\ stored = <<>>
    /\ last = NoCall
    /\ made = <<>>
    /\ held = {}
    /\ placed = [at |-> {}, clean |-> FALSE, updated |-> FALSE]
    /\ world = [first |-> <<>>, prior |-> <<>>, now |-> <<>>, clean |-> FALSE,
                updated |-> FALSE]

Next ==
    \/ bedResource
    \/ chestResource
    \/ teamResource
    \/ gamemodeResource
    \/ daylockResource
    \/ gameruleResource
    \/ teamMemberResource
    \/ entityResource
    \/ stairsResource
    \/ fillResource
    \/ opResource
    \/ banResourceImpl

Spec == Init /\ [][Next]_vars

----------------------------------------------------------------------------
(* Properties of the double-block structures. *)

\* The air setblock for a cell, as the server's command syntax has it.
AirAt(x, y, z) ==
    "setblock " \o FmtInt(x) \o " " \o FmtInt(y) \o " " \o FmtInt(z) \o " minecraft:air replace"

\* Every air setblock in the neighbourhood of a cell.
AirNear(x, y, z) == {AirAt(x + i, y, z + j) : i \in -1..1, j \in -1..1}

\* The last call was a Create of a two-block structure: a bed with a valid
\* direction or a double chest.
TwoHalfCreate ==
    /\ kind \in {"bed", "chest"}
    /\ last.op = "Create"
    /\ kind = "bed" => last.input[1].Direction \in {"north", "south", "east", "west"}
    /\ kind = "chest" => last.input[1].Size = "double"

\* ... in which the transport accepted the first command and refused the second.
SecondHalfFailed ==
    /\ TwoHalfCreate
    /\ last.transport[1].ok
    /\ ~last.transport[2].ok

\* C1: when the first half of a bed or double chest is placed and the second
\* placement fails, Create sends exactly one air setblock, for the first half's
\* cell and after the two placements, reports the second placement's failure as
\* its one error whatever the rollback's outcome, and stores no state.
C1_RollbackOfFirstHalf ==
    SecondHalfFailed =>
        LET d == last.input[1]
        IN  /\ Len(last.cmds) = 3
            /\ last.cmds[3] = AirAt(d.X, d.Y, d.Z)
            /\ \A i \in 1..2 : last.cmds[i] \notin AirNear(d.X, d.Y, d.Z)
            /\ Len(last.errors) = 1
            /\ last.errors[1].cause = 2
            /\ ~last.wrote
            /\ stored = <<>>

C1_Witness ==
    /\ SecondHalfFailed
    /\ kind = "chest"
    /\ ~last.transport[3].ok
    /\ Len(last.cmds) = 3

\* C2: when the rollback of a failed bed or double-chest Create fails too, the
\* outcome holds the placement failure as its only error and a warning that
\* records the rollback's failure.
C2_RollbackFailureWarned ==
    (SecondHalfFailed /\ ~last.transport[3].ok) =>
        /\ Len(last.errors) = 1
        /\ last.errors[1].cause = 2
        /\ \E i \in 1..Len(last.warnings) : last.warnings[i].cause = 3

----------------------------------------------------------------------------
(* Properties of the team resource. *)

\* The last call was a team Create whose team add succeeded and one of whose
\* team modify commands failed.
TeamOptionFailed ==
    /\ kind = "team"
    /\ last.op = "Create"
    /\ Len(last.cmds) >= 2
    /\ last.transport[1].ok
    /\ \E i \in 2..Len(last.cmds) : ~last.transport[i].ok

\* C3: when team add succeeded and a later team modify fails, team Create sends a
\* team remove for that team before it returns the failing step's error.
C3_TeamRemovedOnFailedCreate ==
    TeamOptionFailed =>
        /\ last.cmds[Len(last.cmds)] = "team remove " \o Str(TrimSpace(last.input[1].Name))
        /\ last.errors # <<>>

----------------------------------------------------------------------------
(* Properties of the singleton settings: game mode and day lock. *)

\* The set-mode command for a target (an empty player: the server default), as the
\* server's command syntax has it.
SetModeFor(player, mode) ==
    IF player = <<>> THEN "defaultgamemode " \o Str(mode)
    ELSE "gamemode " \o Str(mode) \o " " \o Str(player)

\* The mode query for a target.
QueryModeFor(player) ==
    IF player = <<>> THEN "/data get storage minecraft:server worldDefaultGameMode"
    ELSE "/data get entity " \o Str(player) \o " playerGameType"

\* What the mode query of the last call returned (empty with an error).
QueriedMode ==
    IF TrimSpace(last.input[1].Player) = <<>>
    THEN GetDefaultGameMode(last.transport[1]).name
    ELSE GetUserGameMode(last.transport[1]).name

\* The last call was a game-mode Create or Update that passed validation.
GamemodeWrite(op) ==
    /\ kind = "gamemode"
    /\ last.op = op
    /\ ToLower(TrimSpace(last.input[1].Mode))
           \in {Text_survival, Text_creative, Text_adventure, Text_spectator}

\* Create sends the query, then the set-mode, and stores what the query returned.
SnapshotBeforeSet ==
    GamemodeWrite("Create") =>
        LET plan == last.input[1]
            player == TrimSpace(plan.Player)
        IN  /\ last.cmds = <<QueryModeFor(player),
                             SetModeFor(player, ToLower(TrimSpace(plan.Mode)))>>
            /\ last.wrote => stored[1].PreviousMode = QueriedMode

\* C4 as stated: in game-mode Create the query is sent before the set-mode and
\* the stored previous_mode is what the query returned; a later Delete sends
\* exactly one set-mode, to the same target, with the stored previous_mode.
C4_DeleteAlwaysRestores ==
    /\ SnapshotBeforeSet
    /\ (kind = "gamemode" /\ last.op = "Delete") =>
            last.cmds = <<SetModeFor(TrimSpace(last.before[1].Player),
                                     last.before[1].PreviousMode)>>

\* C4, amended: as above, but Delete sends that one set-mode only when the stored
\* previous_mode is not empty; when it is empty (the query had failed) Delete
\* sends no command.
C4_DeleteRestoresSnapshot ==
    /\ SnapshotBeforeSet
    /\ (kind = "gamemode" /\ last.op = "Delete") =>
            last.cmds =
                IF last.before[1].PreviousMode # <<>>
                THEN <<SetModeFor(TrimSpace(last.before[1].Player),
                                  last.before[1].PreviousMode)>>
                ELSE <<>>

C4_Witness ==
    /\ kind = "gamemode"
    /\ last.op = "Delete"
    /\ last.before[1].Player = <<"a", "l", "i", "c", "e">>
    /\ last.before[1].PreviousMode = Text_survival
    /\ last.cmds = <<"gamemode survival alice">>

\* The replies from which no snapshot can be taken: a failed call, an id outside
\* the table, a number with trailing text, no colon at all; for a player query
\* also the storage form with its closing brace.
UnusableReplies(player) ==
    {ErrReply,
     [ok |-> TRUE, text |-> <<"d", "a", "t", "a", ":", " ", "7">>],
     [ok |-> TRUE, text |-> <<"d", "a", "t", "a", ":", " ", "-", "1">>],
     [ok |-> TRUE, text |-> <<"d", "a", "t", "a", ":", " ", "1", "b">>],
     [ok |-> TRUE, text |-> <<"n", "o", "n", "e">>]}
        \cup (IF player = <<>> THEN {}
              ELSE {[ok |-> TRUE, text |-> <<"{", "m", ":", "3", "}">>]})

SnapshotFailed(op) ==
    /\ GamemodeWrite(op)
    /\ last.transport[1] \in UnusableReplies(TrimSpace(last.input[1].Player))

\* C5: when the snapshot query of a game-mode Create or Update fails, the
\* set-mode is still sent and the call succeeds exactly when the set succeeds;
\* the previous_mode stored is then empty after Create and the one already
\* stored after Update.
C5_SnapshotFailureKeepsWrite ==
    \A op \in {"Create", "Update"} :
        SnapshotFailed(op) =>
            LET plan == last.input[1]
            IN  /\ Len(last.cmds) = 2
                /\ last.cmds[2] = SetModeFor(TrimSpace(plan.Player), ToLower(TrimSpace(plan.Mode)))
                /\ (last.errors = <<>>) = last.transport[2].ok
                /\ last.wrote = last.transport[2].ok
                /\ last.wrote =>
                      /\ stored[1].Mode = plan.Mode
                      /\ stored[1].PreviousMode =
                            IF op = "Create" THEN <<>> ELSE last.before[1].PreviousMode

C5_Witness ==
    /\ SnapshotFailed("Update")
    /\ last.transport[1].ok
    /\ last.transport[2].ok
    /\ last.before[1].PreviousMode = Text_creative
    /\ stored[1].PreviousMode = Text_creative
    /\ stored[1].Mode # last.before[1].Mode

----------------------------------------------------------------------------
(* Properties of the game rules and of input validation. *)

\* The last call was a game-rule Create or Update.
GameruleWrite == kind = "gamerule" /\ last.op \in {"Create", "Update"}

\* The last call reported an error, sent nothing and left the stored state as it was.
RejectedUnsent ==
    /\ last.errors # <<>>
    /\ last.cmds = <<>>
    /\ ~last.wrote
    /\ stored = last.before

\* The value of a game-rule configuration reads as an integer / as true or false.
ValueIsInt(v) == Atoi(TrimSpace(v)).ok

ValueIsBool(v) == ~ValueIsInt(v) /\ ToLower(TrimSpace(v)) \in {Text_true, Text_false}

\* The rule names and blank-padded forms of them the client's calls are tried with.
RuleNameInputs ==
    GameruleImportIds \cup {<<" ">> \o n : n \in boolRules \cup intRules}

\* C7: SetGameRuleBool with a name outside the boolean rules (integer rules
\* included), SetGameRuleInt with a name outside the integer rules (boolean rules
\* included) and ResetGameRuleToDefault with a name without a default return an
\* error and send no command; so game-rule Create and Update with an integer for
\* a boolean rule, true/false for an integer rule, or any such value for a rule
\* outside the registry send nothing and store nothing, and a Delete of a rule
\* without a default sends nothing.
C7_UnknownRuleSendsNothing ==
    /\ \A n \in RuleNameInputs, r \in PlainReplies :
          /\ TrimSpace(n) \notin boolRules =>
                \A b \in BOOLEAN :
                    SetGameRuleBool(n, b, r).cmds = <<>> /\ SetGameRuleBool(n, b, r).err # ""
          /\ TrimSpace(n) \notin intRules =>
                \A v \in {-3, 5} :
                    SetGameRuleInt(n, v, r).cmds = <<>> /\ SetGameRuleInt(n, v, r).err # ""
          /\ TrimSpace(n) \notin (DOMAIN defaultBoolRules \cup DOMAIN defaultIntRules) =>
                /\ ResetGameRuleToDefault(n, r).cmds = <<>>
                /\ ResetGameRuleToDefault(n, r).err # ""
    /\ GameruleWrite =>
          LET name == TrimSpace(last.input[1].Name)
              v == last.input[1].Value
          IN  ((ValueIsInt(v) /\ name \notin intRules)
                  \/ (ValueIsBool(v) /\ name \notin boolRules)) => RejectedUnsent
    /\ (kind = "gamerule" /\ last.op = "Delete"
            /\ TrimSpace(last.before[1].Name)
                   \notin (DOMAIN defaultBoolRules \cup DOMAIN defaultIntRules)) =>
          last.cmds = <<>>

C7_Witness ==
    /\ GameruleWrite
    /\ last.op = "Create"
    /\ TrimSpace(last.input[1].Name) = Rule_spawnRadius
    /\ last.input[1].Value = Text_true
    /\ last.transport[1].ok
    /\ RejectedUnsent

\* The set command that carries the registered default of a rule.
DefaultCommand(name) ==
    "gamerule " \o Str(name) \o " "
        \o (IF name \in DOMAIN defaultBoolRules
            THEN (IF defaultBoolRules[name] THEN "true" ELSE "false")
            ELSE FmtInt(defaultIntRules[name]))

\* C8 as stated: Delete of a game-rule resource sends the set command with the
\* registered default of the rule when there is one; when the rule has no
\* registered default the Delete reports an error and the resource stays in the
\* tracked state.
C8_DeleteWithoutDefaultFails ==
    (kind = "gamerule" /\ last.op = "Delete") =>
        LET name == TrimSpace(last.before[1].Name)
        IN  IF name \in DOMAIN defaultBoolRules \cup DOMAIN defaultIntRules
            THEN last.cmds = <<DefaultCommand(name)>>
            ELSE last.errors # <<>> /\ stored = last.before

\* C9: for every rule with a registered default, the reset sends exactly one
\* command "gamerule <name> <default>" with the default registered for that name
\* (keepInventory: false, spawnRadius: 5), a boolean as true/false and an integer
\* in base 10.
C9_ResetSendsRegisteredDefault ==
    /\ \A n \in RuleNameInputs, r \in PlainReplies :
          TrimSpace(n) \in boolRules \cup intRules =>
              ResetGameRuleToDefault(n, r).cmds = <<DefaultCommand(TrimSpace(n))>>
    /\ (kind = "gamerule" /\ last.op = "Delete") =>
          LET name == TrimSpace(last.before[1].Name)
          IN  /\ name \in boolRules \cup intRules => last.cmds = <<DefaultCommand(name)>>
              /\ name = Rule_keepInventory => last.cmds = <<"gamerule keepInventory false">>
              /\ name = Rule_spawnRadius => last.cmds = <<"gamerule spawnRadius 5">>
              /\ name = Rule_doDaylightCycle =>
                    last.cmds = <<"gamerule doDaylightCycle true">>
              /\ name = Rule_maxCommandChainLength =>
                    last.cmds = <<"gamerule maxCommandChainLength 65536">>

C9_Witness ==
    /\ kind = "gamerule"
    /\ last.op = "Delete"
    /\ last.before[1].Name = Rule_keepInventory
    /\ last.cmds = <<"gamerule keepInventory false">>
    /\ stored = <<>>

\* C10: a validation error never reaches the transport: game-rule Create and
\* Update with a value that is neither an integer nor true/false, bed Create and
\* Update with a direction outside north, south, east, west, and chest Create and
\* Update with a size outside single, double report an error, send no command
\* and store nothing.
C10_ValidationErrorSendsNothing ==
    /\ (GameruleWrite /\ ~ValueIsInt(last.input[1].Value)
            /\ ~ValueIsBool(last.input[1].Value)) => RejectedUnsent
    /\ (kind = "bed" /\ last.op \in {"Create", "Update"}
            /\ last.input[1].Direction \notin {"north", "south", "east", "west"}) =>
          RejectedUnsent
    /\ (kind = "chest" /\ last.op \in {"Create", "Update"}
            /\ last.input[1].Size \notin {"single", "double"}) => RejectedUnsent

C10_Witness ==
    /\ kind = "chest"
    /\ last.op = "Update"
    /\ last.input[1].Size = "large"
    /\ last.before[1].Size = "double"
    /\ \A i \in 1..Len(last.transport) : last.transport[i].ok
    /\ RejectedUnsent

----------------------------------------------------------------------------
(* Properties of team membership and of the selector by name. *)

\* The targets of a membership configuration that are set (not null and not
\* blank), each with its kind.
MemberTargets(d) ==
    {t \in {<<Kind_player, d.Player>>, <<Kind_selector, d.Selector>>,
            <<Kind_entity, d.EntityID>>} :
        ~t[2].Null /\ TrimSpace(t[2].Value) # <<>>}

\* The target of a join or leave command for a kind and a trimmed value.
TargetText(k, v) ==
    IF k = Kind_entity
    THEN "@e[nbt={CustomName:'{\"text\":\"" \o Str(EscapeQuotes(v)) \o "\"}'}]"
    ELSE Str(v)

\* C11: team-membership Create sends a team join only when the team is not
\* blank and exactly one of player, selector and entity_id is set to a non-blank
\* value; with none or several set it reports a validation error, sends no
\* command and stores nothing; the kind and value used are those of the one
\* target that is set.
C11_ExactlyOneTarget ==
    (kind = "team_member" /\ last.op = "Create") =>
        LET plan == last.input[1]
            team == TrimSpace(plan.Team.Value)
            targets == MemberTargets(plan)
        IN  IF team # <<>> /\ Cardinality(targets) = 1
            THEN LET t == CHOOSE x \in targets : TRUE
                     v == TrimSpace(t[2].Value)
                 IN  /\ last.cmds = <<"team join " \o Str(team) \o " " \o TargetText(t[1], v)>>
                     /\ last.wrote =>
                            stored[1].Id = team \o <<"|">> \o t[1] \o <<"|">> \o v
            ELSE /\ last.cmds = <<>>
                 /\ last.errors # <<>>
                 /\ \A i \in 1..Len(last.errors) :
                        last.errors[i].summary = "Validation Error"
                 /\ ~last.wrote
                 /\ stored = <<>>

C11_Witness ==
    /\ kind = "team_member"
    /\ last.op = "Create"
    /\ Cardinality(MemberTargets(last.input[1])) = 2
    /\ IsSet(last.input[1].Player)
    /\ IsSet(last.input[1].EntityID)
    /\ TrimSpace(last.input[1].Team.Value) # <<>>
    /\ last.transport[1].ok
    /\ last.cmds = <<>>
    /\ last.errors # <<>>

----------------------------------------------------------------------------
(* Properties of the replies the client parses. *)

\* The mode names by id, as the server numbers them.
ModeOfId == <<Text_survival, Text_creative, Text_adventure, Text_spectator>>

\* The replies of the two mode queries that carry the one-digit id n.
UserReplyOf(n) == [ok |-> TRUE, text |-> <<"d", "a", "t", "a", ":", " ", DigitChars[n + 1]>>]

DefaultReplyOf(n) == [ok |-> TRUE, text |-> <<"{", "m", ":", DigitChars[n + 1], "}">>]

\* The id a reply of ModeReplies carries for a target, or -1 when it has none
\* that reads as a number.
IdIn(reply, player) ==
    LET t == reply.text
    IN  IF ~reply.ok THEN -1
        ELSE IF t = <<"{", "m", ":", "3", "}">> THEN (IF player = <<>> THEN 3 ELSE -1)
        ELSE IF Len(t) = 7 /\ SubSeq(t, 1, 6) = <<"d", "a", "t", "a", ":", " ">> /\ IsDigit(t[7])
        THEN DigitVal(t[7])
        ELSE -1

\* C12: GetDefaultGameMode and GetUserGameMode map the id of the reply through
\* the table 0 survival, 1 creative, 2 adventure, 3 spectator; for an id outside
\* 0..3 they return an error and no name; the snapshot a Create stores is the
\* name so mapped, or empty.
C12_ClosedModeTable ==
    /\ \A n \in 0..9 :
          LET u == GetUserGameMode(UserReplyOf(n))
              d == GetDefaultGameMode(DefaultReplyOf(n))
          IN  IF n <= 3
              THEN /\ u = [err |-> "", name |-> ModeOfId[n + 1]]
                   /\ d = [err |-> "", name |-> ModeOfId[n + 1]]
              ELSE /\ u.err # "" /\ u.name = <<>>
                   /\ d.err # "" /\ d.name = <<>>
    /\ (GamemodeWrite("Create") /\ last.wrote) =>
          LET id == IdIn(last.transport[1], TrimSpace(last.input[1].Player))
          IN  stored[1].PreviousMode = (IF id \in 0..3 THEN ModeOfId[id + 1] ELSE <<>>)

C12_Witness ==
    /\ GamemodeWrite("Create")
    /\ last.wrote
    /\ last.transport[1] = UserReplyOf(7)
    /\ stored[1].PreviousMode = <<>>
    /\ last.errors = <<>>

\* A token reads as true or false in any case / as a base-10 integer.
IsBoolToken(t) == ToLower(t) \in {Text_true, Text_false}

IsIntToken(t) == Atoi(t).ok

\* The last token of the text that is a boolean or an integer; 0 when there is none.
LastValueToken(text) ==
    LET toks == Fields(text)
        qual == {i \in 1..Len(toks) : IsBoolToken(toks[i]) \/ IsIntToken(toks[i])}
    IN  IF qual = {} THEN 0 ELSE CHOOSE i \in qual : \A j \in qual : j <= i

\* The answers of GetGameRule to the replies.
RuleCallIs(Expected(_)) ==
    \A q \in RuleReplies :
        q.ok => GetGameRule(Rule_doFireTick, q)
                    = [cmds |-> <<"gamerule doFireTick">>, err |-> "",
                       value |-> Expected(q.text)]

\* The value Read and ImportState store from the reply.
RuleReadIs(Expected(_)) ==
    (kind = "gamerule" /\ last.op \in {"Read", "ImportState"} /\ last.transport[1].ok) =>
        /\ last.errors = <<>>
        /\ last.wrote
        /\ stored[1].Value = Expected(last.transport[1].text)

\* The qualifying token as it stands in the reply.
TokenAsIs(text) ==
    IF LastValueToken(text) = 0 THEN TrimSpace(text)
    ELSE Fields(text)[LastValueToken(text)]

\* The qualifying token, a boolean one in lower case when the reply has several tokens.
TokenLowered(text) ==
    LET tok == Fields(text)[LastValueToken(text)]
    IN  IF LastValueToken(text) = 0 THEN TrimSpace(text)
        ELSE IF Len(Fields(text)) > 1 /\ IsBoolToken(tok) THEN ToLower(tok)
        ELSE tok

\* C13 as stated: for a reply delivered without error GetGameRule returns no
\* error and the last whitespace-separated token that is true/false in any case
\* or a base-10 integer, as that token; with no such token the whole trimmed
\* reply.
C13_ReturnsTokenAsIs == RuleReadIs(TokenAsIs)

\* C13, amended: as above, but a true/false token of a reply with more than one
\* token is returned in lower case.
C13_ReturnsLastValueToken ==
    /\ RuleCallIs(TokenLowered)
    /\ RuleReadIs(TokenLowered)
    /\ GetGameRule(Rule_doFireTick, Reply_42).value = <<"4", "2">>
    /\ GetGameRule(Rule_doFireTick, Reply_doFireTick).value = Text_true

C13_Witness ==
    /\ kind = "gamerule"
    /\ last.op = "Read"
    /\ last.transport[1] = Reply_doFireTick
    /\ last.before[1].Value = <<"4", "2">>
    /\ stored[1].Value = Text_true

\* Markers the selector is built for: plain, with one quote, with quotes at both
\* ends, with a backslash before a quote, empty.
MarkerInputs ==
    {<<"i", "d">>, <<"A", "\"", "B">>, <<"\"", "x", "\"">>, <<"a", "\\", "\"">>, <<>>}

CountQuotes(t) == Cardinality({i \in 1..Len(t) : t[i] = "\""})

\* Every double quote of the text has a backslash right before it.
QuotesEscaped(t) == \A i \in 1..Len(t) : t[i] = "\"" => (i > 1 /\ t[i - 1] = "\\")

\* The part of a selector by name between the fixed head and tail.
Embedded(sel) == SubSeq(sel, Len(SelectorHead) + 1, Len(sel) - Len(SelectorTail))

\* C14: selectorByCustomName returns a selector in which every double quote of
\* the marker has a backslash before it, the same selector for the same marker;
\* the leave command of a membership by entity id carries the selector that the
\* join command of its Create carried.
C14_SelectorEscapedAndStable ==
    /\ \A m \in MarkerInputs :
          LET sel == selectorByCustomName(m)
          IN  /\ SubSeq(sel, 1, Len(SelectorHead)) = SelectorHead
              /\ SubSeq(sel, Len(sel) - Len(SelectorTail) + 1, Len(sel)) = SelectorTail
              /\ QuotesEscaped(Embedded(sel))
              /\ CountQuotes(Embedded(sel)) = CountQuotes(m)
              /\ Len(Embedded(sel)) = Len(m) + CountQuotes(m)
    /\ (kind = "team_member" /\ last.op = "Delete" /\ made # <<>>
            /\ IsSet(last.before[1].EntityID)) =>
          LET v == TrimSpace(last.before[1].EntityID.Value)
              team == TrimSpace(last.before[1].Team.Value)
          IN  /\ made = <<"team join " \o Str(team) \o " " \o TargetText(Kind_entity, v)>>
              /\ last.cmds = <<"team leave " \o TargetText(Kind_entity, v)>>

C14_Witness ==
    /\ kind = "team_member"
    /\ last.op = "Delete"
    /\ made = <<"team join blue @e[nbt={CustomName:'{\"text\":\"A\\\"B\"}'}]">>
    /\ last.cmds = <<"team leave @e[nbt={CustomName:'{\"text\":\"A\\\"B\"}'}]">>

----------------------------------------------------------------------------
(* Properties of the text embedded in commands. *)

\* The text with a backslash before each of its double quotes, as a string.
Escaped(t) == Str(EscapeQuotes(t))

\* The display name a team configuration is created or updated with.
DisplayOf(plan) ==
    IF ~plan.DisplayName.Null /\ plan.DisplayName.Value # <<>>
    THEN plan.DisplayName.Value ELSE TrimSpace(plan.Name)

\* C15 as stated: in every command that embeds a text in a JSON text component
\* (the summon, kill and clear of an entity, the display name of a team, the
\* selector by marker) each double quote of the text is escaped, for every marker
\* the state can hold, an imported id included.
C15_EmbeddedQuotesEscaped ==
    /\ (kind = "entity" /\ last.op = "Create" /\ last.wrote) =>
          last.cmds = <<"summon " \o last.input[1].Type \o " " \o EntityPos(last.input[1])
                            \o " {CustomName:'{\"text\":\"" \o Escaped(stored[1].Id) \o "\"}'}">>
    /\ (kind = "entity" /\ last.op = "Delete" /\ last.cmds # <<>>) =>
          LET st == last.before[1]
          IN  /\ last.cmds[1] = "kill @e[type=" \o st.Type \o ",nbt={CustomName:'{\"text\":\""
                                    \o Escaped(st.Id) \o "\"}'}]"
              /\ Len(last.cmds) > 1 =>
                    last.cmds[2] = "clear @a " \o st.Type \o "{display:{Name:'{\"text\":\""
                                       \o Escaped(st.Id) \o "\"}'}}"
    /\ (kind = "team" /\ last.op = "Create") =>
          last.cmds[1] = "team add " \o Str(TrimSpace(last.input[1].Name)) \o " \""
                             \o Escaped(DisplayOf(last.input[1])) \o "\""
    /\ (kind = "team" /\ last.op = "Update"
            /\ ~equalString(last.input[1].DisplayName, last.before[1].DisplayName)) =>
          last.cmds[1] = "team modify " \o Str(TrimSpace(last.input[1].Name))
                             \o " displayName {\"text\":\""
                             \o Escaped(DisplayOf(last.input[1])) \o "\"}"
    /\ (kind = "team_member" /\ last.op = "Delete" /\ IsSet(last.before[1].EntityID)
            /\ Cardinality(MemberTargets(last.before[1])) = 1
            /\ TrimSpace(last.before[1].Team.Value) # <<>>) =>
          last.cmds = <<"team leave @e[nbt={CustomName:'{\"text\":\""
                            \o Escaped(TrimSpace(last.before[1].EntityID.Value)) \o "\"}'}]">>

----------------------------------------------------------------------------
(* Properties of the two-block structures: cells and order of commands. *)

\* The setblock that places a block state at a cell.
PlaceAt(x, y, z, block) ==
    "setblock " \o FmtInt(x) \o " " \o FmtInt(y) \o " " \o FmtInt(z) \o " " \o block
        \o " replace"

\* The block state of one part of a bed.
BedBlock(d, part) ==
    d.Material \o "[facing=" \o d.Direction \o ",part=" \o part \o ",occupied="
        \o (IF d.Occupied = <<TRUE>> THEN "true" ELSE "false") \o "]"

\* The cell of the head of a bed with its foot at (x, y, z).
HeadCell(d) ==
    CASE d.Direction = "east" -> [X |-> d.X + 1, Y |-> d.Y, Z |-> d.Z]
      [] d.Direction = "west" -> [X |-> d.X - 1, Y |-> d.Y, Z |-> d.Z]
      [] d.Direction = "south" -> [X |-> d.X, Y |-> d.Y, Z |-> d.Z + 1]
      [] d.Direction = "north" -> [X |-> d.X, Y |-> d.Y, Z |-> d.Z - 1]

ValidFacing(d) == d.Direction \in {"north", "south", "east", "west"}

\* C16: with the foot at (x,y,z) the head of a bed is at (x+1,y,z) for east,
\* (x-1,y,z) for west, (x,y,z+1) for south and (x,y,z-1) for north; y is not
\* changed; Create, Update and Delete address the head by the same offset.
C16_HeadOffset ==
    /\ (kind = "bed" /\ last.op \in {"Create", "Update"} /\ Len(last.cmds) >= 2) =>
          LET d == last.input[1]
              h == HeadCell(d)
          IN  /\ last.cmds[1] = PlaceAt(d.X, d.Y, d.Z, BedBlock(d, "foot"))
              /\ last.cmds[2] = PlaceAt(h.X, h.Y, h.Z, BedBlock(d, "head"))
    /\ (kind = "bed" /\ last.op = "Delete" /\ ValidFacing(last.before[1])) =>
          LET d == last.before[1]
              h == HeadCell(d)
          IN  /\ Len(last.cmds) = 2
              /\ {last.cmds[1], last.cmds[2]} = {AirAt(d.X, d.Y, d.Z), AirAt(h.X, h.Y, h.Z)}

C16_Witness ==
    /\ kind = "bed"
    /\ last.op = "Create"
    /\ last.wrote
    /\ last.cmds =
          <<"setblock 10 64 10 minecraft:red_bed[facing=north,part=foot,occupied=false] replace",
            "setblock 10 64 9 minecraft:red_bed[facing=north,part=head,occupied=false] replace">>

\* The block state of one half of a chest.
ChestBlock(d, type) ==
    (IF d.Trapped = <<TRUE>> THEN "minecraft:trapped_chest" ELSE "minecraft:chest")
        \o "[type=" \o type \o ",waterlogged="
        \o (IF d.Waterlogged = <<TRUE>> THEN "true" ELSE "false") \o "]"

\* The placements of the first and of the second half of the structure of the
\* last Create.
FirstHalf ==
    LET d == last.input[1]
    IN  IF kind = "bed" THEN PlaceAt(d.X, d.Y, d.Z, BedBlock(d, "foot"))
        ELSE PlaceAt(d.X, d.Y, d.Z, ChestBlock(d, "left"))

SecondHalf ==
    LET d == last.input[1]
    IN  IF kind = "bed"
        THEN PlaceAt(HeadCell(d).X, d.Y, HeadCell(d).Z, BedBlock(d, "head"))
        ELSE PlaceAt(d.X + 1, d.Y, d.Z, ChestBlock(d, "right"))

\* C17: bed Create and double-chest Create send their commands one after the
\* other, each after the reply to the one before: the first half first, the
\* second half only after the first placement succeeded, the compensating
\* delete only after the second placement failed, and none after two successes.
C17_OneCommandAfterEachReply ==
    TwoHalfCreate =>
        LET d == last.input[1]
            r == last.transport
        IN  /\ Len(last.cmds) =
                  (IF ~r[1].ok THEN 1 ELSE IF ~r[2].ok THEN 3 ELSE 2)
            /\ last.cmds[1] = FirstHalf
            /\ Len(last.cmds) >= 2 => last.cmds[2] = SecondHalf
            /\ Len(last.cmds) = 3 => last.cmds[3] = AirAt(d.X, d.Y, d.Z)
            /\ last.wrote = (r[1].ok /\ r[2].ok)

C17_Witness ==
    /\ TwoHalfCreate
    /\ kind = "bed"
    /\ ~last.transport[1].ok
    /\ last.transport[2].ok
    /\ last.cmds = <<FirstHalf>>
    /\ last.errors # <<>>

\* The last call was a Delete of a two-block structure: a bed with a valid stored
\* direction or a double chest.
TwoHalfDelete ==
    /\ kind \in {"bed", "chest"}
    /\ last.op = "Delete"
    /\ kind = "bed" => ValidFacing(last.before[1])
    /\ kind = "chest" => last.before[1].Size = "double"

\* C18 as stated: Delete of a two-block structure removes the halves in the
\* reverse of the order of their placement (bed: head, then foot; double chest:
\* right half, then left half), sends both removals whatever the reply to the
\* first, and reports no error for a removal that failed.
C18_DeleteInReverseOrder ==
    TwoHalfDelete =>
        LET d == last.before[1]
            second == IF kind = "bed" THEN AirAt(HeadCell(d).X, d.Y, HeadCell(d).Z)
                      ELSE AirAt(d.X + 1, d.Y, d.Z)
        IN  /\ last.cmds = <<second, AirAt(d.X, d.Y, d.Z)>>
            /\ last.errors = <<>>
            /\ stored = <<>>

----------------------------------------------------------------------------
(* Properties of the entity resource. *)

\* The commands that carry the marker of an entity, the marker as it is.
SummonOf(d, id) ==
    "summon " \o d.Type \o " " \o FmtInt(d.Position.X) \o " " \o FmtInt(d.Position.Y) \o " "
        \o FmtInt(d.Position.Z) \o " {CustomName:'{\"text\":\"" \o Str(id) \o "\"}'}"

KillOf(type, id) ==
    "kill @e[type=" \o type \o ",nbt={CustomName:'{\"text\":\"" \o Str(id) \o "\"}'}]"

ClearOf(type, id) ==
    "clear @a " \o type \o "{display:{Name:'{\"text\":\"" \o Str(id) \o "\"}'}}"

\* The last call was an entity Delete that could read the stored state.
EntityDeleteRan ==
    /\ kind = "entity"
    /\ last.op = "Delete"
    /\ \A i \in 1..Len(last.errors) : last.errors[i].summary # "Value Conversion Error"

\* C19: entity Delete sends the kill (by the stored type and marker) first and
\* the clear of the inventories (same type and marker) second, the clear only
\* after the kill succeeded; a transport failure of either is the error of the
\* operation; nothing else is sent.
C19_KillThenClear ==
    EntityDeleteRan =>
        LET st == last.before[1]
            r == last.transport
        IN  /\ last.cmds = (IF r[1].ok THEN <<KillOf(st.Type, st.Id), ClearOf(st.Type, st.Id)>>
                            ELSE <<KillOf(st.Type, st.Id)>>)
            /\ (last.errors = <<>>) = (r[1].ok /\ r[2].ok)
            /\ \A i \in 1..Len(last.errors) :
                  last.errors[i].cause = (IF r[1].ok THEN 2 ELSE 1)
            /\ (stored = <<>>) = (r[1].ok /\ r[2].ok)

C19_Witness ==
    /\ EntityDeleteRan
    /\ made # <<>>
    /\ last.transport[1].ok
    /\ ~last.transport[2].ok
    /\ Len(last.cmds) = 2
    /\ Len(last.errors) = 1
    /\ stored = last.before

\* C20: after a Create, through any Reads and Updates, the kill and the clear of
\* Delete carry the marker that the summon of the Create carried, which is the
\* stored id; Read and Update send no command and leave the stored id, type and
\* coordinate as they are.
C20_MarkerRoundTrip ==
    (kind = "entity" /\ made # <<>>) =>
        /\ stored # <<>> =>
              /\ stored[1].Id \in EntityUuids
              /\ made = <<SummonOf(stored[1], stored[1].Id)>>
        /\ last.op \in {"Read", "Update"} =>
              /\ last.cmds = <<>>
              /\ stored = last.before
        /\ last.op = "Delete" =>
              /\ made = <<SummonOf(last.before[1], last.before[1].Id)>>
              /\ last.cmds[1] = KillOf(last.before[1].Type, last.before[1].Id)
              /\ Len(last.cmds) > 1 =>
                    last.cmds[2] = ClearOf(last.before[1].Type, last.before[1].Id)

C20_Witness ==
    /\ kind = "entity"
    /\ last.op = "Delete"
    /\ last.before[1].Id \in EntityUuids
    /\ made = <<SummonOf(last.before[1], last.before[1].Id)>>
    /\ last.cmds = <<KillOf(last.before[1].Type, last.before[1].Id),
                     ClearOf(last.before[1].Type, last.before[1].Id)>>
    /\ ~last.transport[2].ok

----------------------------------------------------------------------------
(* C21: Update as a second Create. *)

\* What Create does for the same desired state under the same replies (the reply
\* to a rollback, which Create discards, is taken as a success).
CreateLike(k, data, tr) ==
    CASE k = "stairs" -> stairsCreate(data, tr)
      [] k = "bed" -> bedCreate(data, tr \o <<OkReply>>)
      [] k = "chest" -> chestCreate(data, tr \o <<OkReply>>)

\* An Update of one of the kinds that place blocks again.
ReplacingUpdate == last.op = "Update" /\ kind \in {"stairs", "bed", "chest"}

\* C21: for stairs, bed and chest an Update with desired state D sends what a
\* Create with D sends under the same replies: the same placements in the same
\* order, and after a failed step the same compensating command.
C21_UpdateSendsWhatCreateSends ==
    ReplacingUpdate =>
        last.cmds = CreateLike(kind, last.input[1], last.transport).cmds

\* The part that holds: the commands of the Update are the placements of the
\* Create, in the same order, up to the failing one.
C21_SamePlacements ==
    ReplacingUpdate =>
        LET c == CreateLike(kind, last.input[1], last.transport).cmds
        IN  /\ Len(last.cmds) <= Len(c)
            /\ last.cmds = SubSeq(c, 1, Len(last.cmds))
            /\ Len(c) > Len(last.cmds) =>
                  /\ Len(c) = 3 /\ ~last.transport[2].ok
                  /\ c[3] = DeleteBlock(last.input[1].X, last.input[1].Y, last.input[1].Z)

----------------------------------------------------------------------------
(* C22: the display name of a team. *)

\* The team call passes a display value on: every Create, and an Update whose
\* display_name differs from the stored one.
DisplayPassedOn ==
    /\ kind = "team"
    /\ \/ last.op = "Create"
       \/ /\ last.op = "Update"
          /\ ~equalString(last.input[1].DisplayName, last.before[1].DisplayName)

\* The command that passes the display value d on for the team of the plan.
DisplayCommand(plan, d) ==
    IF last.op = "Create" THEN CreateTeam(TrimSpace(plan.Name), d)
    ELSE SetTeamDisplayName(TrimSpace(plan.Name), d)

\* C22: the display value passed on by team Create, and by team Update when
\* display_name changed, is display_name when that is non-null and non-empty and
\* otherwise the team name, and it is never the empty string.
C22_DisplayDefaultsToName ==
    DisplayPassedOn =>
        LET plan == last.input[1]
            d == IF ~plan.DisplayName.Null /\ plan.DisplayName.Value # <<>>
                 THEN plan.DisplayName.Value ELSE TrimSpace(plan.Name)
        IN  /\ last.cmds[1] = DisplayCommand(plan, d)
            /\ d # <<>>

\* The part that holds: the value passed on is display_name or else the name.
C22_DisplayOrName ==
    DisplayPassedOn =>
        LET plan == last.input[1]
            d == IF ~plan.DisplayName.Null /\ plan.DisplayName.Value # <<>>
                 THEN plan.DisplayName.Value ELSE TrimSpace(plan.Name)
        IN  last.cmds[1] = DisplayCommand(plan, d)

----------------------------------------------------------------------------
(* C23: no move in place. *)

PositionedKinds == {"stairs", "bed", "chest", "fill", "entity"}

\* The first placement of the desired state d, at the coordinate of the state old.
PlacementAt(k, d, old) ==
    CASE k = "stairs" ->
            CreateStairs(d.Material, old.X, old.Y, old.Z, d.Facing, d.Half, d.Shape,
                         Deref(d.Waterlogged))
      [] k = "bed" -> CreateBlock(bedPartMat(d, "foot"), old.X, old.Y, old.Z)
      [] k = "chest" ->
            CreateBlock(chestBlock(d, IF d.Size = "double" THEN "left" ELSE "single"),
                        old.X, old.Y, old.Z)
      [] k = "fill" -> FillBlock(d.Material, old.SX, old.SY, old.SZ, old.EX, old.EY, old.EZ)

\* C23: an Update of a positioned kind that places anything places it at the
\* coordinate the object was created at, never at another one.
C23_UpdateStaysInPlace ==
    (kind \in PositionedKinds /\ last.op = "Update" /\ last.cmds # <<>>) =>
        last.cmds[1] = PlacementAt(kind, last.input[1], last.before[1])

\* The part that holds: the kinds other than the chest.
C23_UpdateStaysInPlaceButChest ==
    (kind \in PositionedKinds \ {"chest"} /\ last.op = "Update" /\ last.cmds # <<>>) =>
        last.cmds[1] = PlacementAt(kind, last.input[1], last.before[1])

----------------------------------------------------------------------------
(* C24: the stored id. *)

\* The id attribute of a state.
IdOf(state) == IF "Id" \in DOMAIN state THEN state.Id ELSE state.ID

\* A Read or an Update without error of a tracked object.
RefreshedOrUpdated ==
    /\ last.op \in {"Read", "Update"} /\ last.errors = <<>>
    /\ last.before # <<>> /\ stored # <<>>

\* C24: a successful Read or Update leaves the stored id as it was, so that the
\* id stays the one Create returned, for every kind.
C24_IdStable == RefreshedOrUpdated => IdOf(stored[1]) = IdOf(last.before[1])

\* The part that holds: every kind but fill and ban.
C24_IdStableButFillAndBan ==
    (RefreshedOrUpdated /\ kind \notin {"fill", "ban"}) =>
        IdOf(stored[1]) = IdOf(last.before[1])

----------------------------------------------------------------------------
(* C25: grants and bans. *)

\* The player of a tracked grant or ban, as the commands name it.
PlayerOf(state) == TrimSpace(state.Player)

\* The command that takes back what the resource gave to player p.
TakeBack(p) == IF kind = "op" THEN RemoveOp(p) ELSE UnbanPlayer(p)

\* C25: for grants and bans, the players holding what was issued are exactly the
\* players of the tracked resources, the stored id is the player name, and a
\* Delete sends the revoke or unban for the player of the resource.
C25_HeldIffTracked ==
    kind \in {"op", "ban"} =>
        /\ held = {PlayerOf(stored[i]) : i \in 1..Len(stored)}
        /\ stored # <<>> => stored[1].ID = PlayerOf(stored[1])
        /\ (last.op = "Delete" /\ last.cmds # <<>>) =>
              last.cmds = <<TakeBack(PlayerOf(last.before[1]))>>

\* The part that holds: the operator grant.
C25_GrantIffTracked ==
    kind = "op" =>
        /\ held = {PlayerOf(stored[i]) : i \in 1..Len(stored)}
        /\ stored # <<>> => stored[1].ID = PlayerOf(stored[1])
        /\ (last.op = "Delete" /\ last.cmds # <<>>) =>
              last.cmds = <<TakeBack(PlayerOf(last.before[1]))>>

----------------------------------------------------------------------------
(* C26: the game-mode round trip. *)

\* A Delete has just ended a sequence Create, Updates, Delete in which every query
\* and every command succeeded and every query told the mode set before it.
CleanRoundTrip == kind = "gamemode" /\ last.op = "Delete" /\ stored = <<>> /\ world.clean

\* C26 as stated: after Create, any number of Updates and Delete, all succeeding
\* and with no other actor, the target has the mode it had immediately before
\* the Create.
C26_RoundTripRestores == CleanRoundTrip => world.now = world.first

\* C26: after Create, any number of Updates and Delete, all succeeding and with
\* no other actor, the target has the mode it had immediately before the latest
\* Create or Update: each Update takes the snapshot again.
C26_RoundTripRestoresLastSnapshot == CleanRoundTrip => world.now = world.prior

\* A round trip with an Update has ended in a mode other than the one before the
\* Create.
C26_Witness ==
    CleanRoundTrip /\ world.updated /\ last.cmds # <<>> /\ world.now # world.first

\* The part that holds: without an Update in between, Delete restores the mode
\* the Create found.
C26_CreateDeleteRestores == (CleanRoundTrip /\ ~world.updated) => world.now = world.first

\* A round trip without an Update has ended, and the Delete sent the restoring command.
C26_CreateDeleteRan == CleanRoundTrip /\ ~world.updated /\ last.cmds # <<>>

----------------------------------------------------------------------------
(* C27: no orphaned half. *)

\* A Delete has just ended a sequence of successful Creates and Updates of a bed
\* or a chest, and every command of the Delete succeeded.
CleanTearDown ==
    kind \in {"bed", "chest"} /\ last.op = "Delete" /\ stored = <<>> /\ placed.clean

\* C27: after successful Creates and Updates of a bed or a chest and a Delete
\* whose commands succeed, every cell where the resource placed a block has had
\* an air setblock after the last placement there.
C27_NoOrphanedHalf == CleanTearDown => placed.at = {}

\* The part that holds: a resource that no Update touched leaves no block.
C27_NoOrphanWithoutUpdate == (CleanTearDown /\ ~placed.updated) => placed.at = {}

\* A two-cell resource that no Update touched has been torn down.
C27_TornDownWithoutUpdate == CleanTearDown /\ ~placed.updated /\ Len(last.cmds) = 2

----------------------------------------------------------------------------
(* C28: a failed Create or Update writes nothing. *)

\* The last call was a Create or an Update that reported an error.
FailedWrite == last.op \in {"Create", "Update"} /\ last.errors # <<>>

\* C28: for every kind, a Create or an Update that reports an error does not set
\* the state: the tracked state is the one from before the call, none after a
\* failed Create.
C28_FailedWriteKeepsState == FailedWrite => (~last.wrote /\ stored = last.before)

\* An Update failed on the transport after a command of it had succeeded.
C28_Witness ==
    /\ FailedWrite /\ last.op = "Update" /\ last.before # <<>>
    /\ \E i \in 1..Len(last.cmds) : last.transport[i].ok
    /\ \E i \in 1..Len(last.cmds) : ~last.transport[i].ok

----------------------------------------------------------------------------
(* C29: the rule registry. *)

\* The Delete of a game rule has run: it is the caller of ResetGameRuleToDefault.
ResetRan == kind = "gamerule" /\ last.op = "Delete"

\* C29: the boolean and the integer rule sets are disjoint, the keys of each
\* table of defaults are the rules of that type, and so a reset of a rule of the
\* registry passes the type check and sends exactly one command, and a reset
\* fails for want of a default exactly for the names outside the registry.
C29_RegistryConsistent ==
    /\ boolRules \cap intRules = {}
    /\ DOMAIN defaultBoolRules = boolRules
    /\ DOMAIN defaultIntRules = intRules
    /\ ResetRan =>
          LET name == TrimSpace(last.before[1].Name)
              reset == ResetGameRuleToDefault(name, last.transport[1])
          IN  /\ last.cmds = reset.cmds
              /\ (name \in boolRules \cup intRules) =>
                    (Len(reset.cmds) = 1 /\ reset.err \in {"", "send command"})
              /\ (reset.err = "no known default for gamerule %q; cannot reset")
                    <=> (name \notin boolRules \cup intRules)

\* An integer rule that only an import can name has been reset with one command.
C29_Witness ==
    /\ ResetRan /\ Len(last.cmds) = 1 /\ last.warnings = <<>>
    /\ TrimSpace(last.before[1].Name) \in intRules \ {TrimSpace(n) : n \in GameruleNames}

\* A name outside the registry has been reset: nothing was sent.
C29_UnknownReset ==
    ResetRan /\ last.cmds = <<>> /\ TrimSpace(last.before[1].Name) \notin boolRules \cup intRules

----------------------------------------------------------------------------
(* C30: the id of a team membership, split again. *)

\* The configurations whose Create stores the id.
CreatedWith(id) ==
    {p \in TeamMemberConfigs :
        /\ teamMemberCreate(p, <<OkReply>>).set # <<>>
        /\ teamMemberCreate(p, <<OkReply>>).set[1].Id = id}

\* The import of id gave the team, the kind and the value of plan p, and
\* parseIDFallback reads the same kind and value from it.
Recovers(id, p, out) ==
    /\ out.set # <<>>
    /\ out.set[1].Team.Value = TrimSpace(p.Team.Value)
    /\ validateAndPickTarget(out.set[1]).kind = validateAndPickTarget(p).kind
    /\ validateAndPickTarget(out.set[1]).value = validateAndPickTarget(p).value
    /\ parseIDFallback(id).kind = validateAndPickTarget(p).kind
    /\ parseIDFallback(id).value = validateAndPickTarget(p).value

\* The state a Delete has just worked on came from an import.
DeletedImported ==
    /\ kind = "team_member" /\ last.op = "Delete"
    /\ teamMemberImportState(last.before[1].Id).set = last.before

\* C30: an import of the id a Create stores recovers the team, the kind and the
\* value of that Create, and a Delete of the imported state sends the leave for
\* the target the Create joined.
C30_IdRoundTrip ==
    /\ (kind = "team_member" /\ last.op = "ImportState") =>
          \A p \in CreatedWith(last.input[1]) :
             Recovers(last.input[1], p, teamMemberImportState(last.input[1]))
                /\ last.wrote
    /\ DeletedImported =>
          \A p \in CreatedWith(last.before[1].Id) :
             last.cmds = teamMemberDelete(teamMemberCreate(p, <<OkReply>>).set[1],
                                          last.transport).cmds

\* The part that holds: the round trip for the teams without a bar in the name.
C30_IdRoundTripWithoutBar ==
    /\ (kind = "team_member" /\ last.op = "ImportState") =>
          \A p \in CreatedWith(last.input[1]) :
             (\A i \in 1..Len(p.Team.Value) : p.Team.Value[i] # "|") =>
                Recovers(last.input[1], p, teamMemberImportState(last.input[1]))
                   /\ last.wrote
    /\ DeletedImported =>
          \A p \in CreatedWith(last.before[1].Id) :
             last.cmds = teamMemberDelete(teamMemberCreate(p, <<OkReply>>).set[1],
                                          last.transport).cmds

\* The id of a Create with a bar in the value was imported and the state deleted.
C30_ImportedAndDeleted ==
    /\ DeletedImported /\ last.cmds # <<>>
    /\ CreatedWith(last.before[1].Id) # {}

====
